---- MODULE Spec2Model ----
(***************************************************************************)
(* The endpoint pipeline of fallible-api: createEndpointHandler compiles   *)
(* an endpoint descriptor into a chain headersHandler -> sessionHandler -> *)
(* bodyParsingAndValidationHandler -> bodyHandler -> finalHandler.         *)
(*                                                                         *)
(* The repository holds four variants of the server module.  The model     *)
(* keeps all four and tells them apart by the variable "variant":          *)
(*   "A"  src/src/server.js lines 1-473                                    *)
(*   "B"  src/src/server.js lines 475-1010                                 *)
(*   "C"  src/src/server.js lines 1012-1593                                *)
(*   "D"  src/unnamed/part_000                                             *)
(* A definition whose name ends in _A, _B, _C or _D models the code of     *)
(* that variant; a definition without such a suffix models code that is    *)
(* textually the same in every variant that has it.                        *)
(***************************************************************************)
EXTENDS Integers, Sequences, FiniteSets, TLC

VARIABLES
    variant,    \* which server module compiled the handler
    endpoint,   \* the endpoint descriptor schema.endpoints[endpointName]
    handler,    \* what createEndpointHandler built: the selected stage set
    message,    \* the request: method, headers, cookies, url, config
    pc,         \* the stage the composed handler runs next
    result,     \* the Result threaded through the result-returning stages
    out,        \* what bodyHandler returned (BodyHandlerState)
    wire,       \* what finalHandler returned (the wire response)
    calls,      \* the stages invoked so far, in order
    reader,     \* number of Body Reader invocations for this request
    parseResult, \* what the Body Reader answered, NoRead before it is invoked
    socket,     \* the upgraded connection: callbacks, frames, what was sent
    schema,     \* the schema handler: prefix, handlers, the path it was called with
    server,     \* a server: the compiled handlers and the requests in flight
    client      \* a client call: the signal, the socket, the listeners, the fetch

vars == <<variant, endpoint, handler, message, pc, result, out, wire, calls, reader,
          parseResult, socket, schema, server, client>>

Variants == {"A", "B", "C", "D"}

(***************************************************************************)
(* JavaScript values the model needs to name.                              *)
(***************************************************************************)
Undefined == "undefined"   \* the JS value undefined (also: header not sent)
Absent == "absent"         \* the property does not exist on the object
NoError == "NoError"       \* a check function returned without throwing

AUTH_COOKIE_NAME == "auth"
CSRF_HEADER == "X-CSRF"
JSON_KEY == "json"

(***************************************************************************)
(* JSON.  Values are named v_*; their texts are what JSON.stringify        *)
(* produces; parseJSONString is JSON.parse and throws on other texts.      *)
(***************************************************************************)
JSValues == {"v_one", "v_obj", "v_str", "v_null"}

JSONStringify(v) ==
    CASE v = "v_one" -> "1"
      [] v = "v_obj" -> "{\"a\":1}"
      [] v = "v_str" -> "\"x\""
      [] v = "v_null" -> "null"

JSONTexts == {JSONStringify(v) : v \in JSValues}

MalformedTexts == {"{a:", ""}

Throws == "throws"

parseJSONString(text) ==
    IF text \in JSONTexts
    THEN CHOOSE v \in JSValues : JSONStringify(v) = text
    ELSE Throws

encodeURIComponent(text) ==
    CASE text = "1" -> "1"
      [] text = "{\"a\":1}" -> "%7B%22a%22%3A1%7D"
      [] text = "\"x\"" -> "%22x%22"
      [] text = "null" -> "null"
      [] text = "{a:" -> "%7Ba%3A"
      [] text = "" -> ""

Texts == JSONTexts \cup MalformedTexts

\* the client's query for an input: encodeURIComponent(JSON.stringify(input))
buildGETURL(input) == encodeURIComponent(JSONStringify(input))

\* URLSearchParams.get / url.query: the percent-decoded value of the key
decodeURIComponent(raw) ==
    CHOOSE t \in Texts : encodeURIComponent(t) = raw

(***************************************************************************)
(* The Validator capability (runtypes): a shape accepts a set of values    *)
(* and validate answers {success, value}.                                  *)
(***************************************************************************)
InputShape == {"v_one", "v_obj"}

validate(shape, value) ==
    IF value \in shape
    THEN [success |-> TRUE, value |-> value]
    ELSE [success |-> FALSE, value |-> Undefined]


(***************************************************************************)
(* Endpoint descriptors (src/unnamed/part_001).  input and files say       *)
(* whether the descriptor declares them; responses maps each declared      *)
(* status to its kind.                                                     *)
(***************************************************************************)
NoResponses == [s \in {} |-> "html"]
HTMLResponses == [s \in {200} |-> "html"]
JSONResponses == [s \in {200} |-> "json"]
MixedResponses == [s \in {200, 404} |-> IF s = 200 THEN "html" ELSE "json"]
BinaryResponses == [s \in {200} |-> "binary"]

ResponsesOptions ==
    {NoResponses, HTMLResponses, JSONResponses, MixedResponses, BinaryResponses}

Descriptor(method, auth, input, files, responses, websocket) ==
    [method |-> method, auth |-> auth, input |-> input, files |-> files,
     responses |-> responses, websocket |-> websocket]

\* every auth policy, on a GET endpoint and on a JSON-body endpoint
AuthDescriptors ==
    {Descriptor(m, a, m = "POST", FALSE, JSONResponses, FALSE) :
        m \in {"GET", "POST"}, a \in {"required", "optional", "none", Undefined}}

\* every body kind: (method, input, files), method omitted included
BodyDescriptors ==
    {Descriptor(m, "optional", i, FALSE, MixedResponses, FALSE) :
        m \in {Undefined, "GET"}, i \in BOOLEAN}
    \cup {Descriptor("POST", "optional", i, f, MixedResponses, FALSE) :
        i \in BOOLEAN, f \in BOOLEAN}

\* every response declaration, with and without a websocket sub-contract
ResponseDescriptors ==
    {Descriptor("GET", a, FALSE, FALSE, r, w) :
        a \in {"required", "optional"}, r \in ResponsesOptions, w \in BOOLEAN}

Descriptors == AuthDescriptors \cup BodyDescriptors \cup ResponseDescriptors

(***************************************************************************)
(* Requests.  headers maps a header name to the text sent, Undefined when  *)
(* the header is not sent; query is the raw (percent-encoded) value of the *)
(* JSON_KEY parameter of the URL; config is state.config.                  *)
(***************************************************************************)
HeaderNames ==
    {"Upgrade", "Sec-WebSocket-Key", CSRF_HEADER, "Accept", "Accept-Charset",
     "Content-Encoding", "Content-Type", "Content-Length"}

JSONContentType == "application/json; charset=utf-8"
MultipartContentType == "multipart/form-data; boundary=x"

\* a number that is not set (the option is undefined)
Unset == 0 - 1

Infinity == 1000000

Limits(minFile, maxFile, maxCount, maxFields) ==
    [defined |-> TRUE,
     minimumFileSize |-> minFile, maximumFileSize |-> maxFile,
     maximumFileCount |-> maxCount, maximumFieldsSize |-> maxFields]

NoLimits ==
    [defined |-> FALSE,
     minimumFileSize |-> Unset, maximumFileSize |-> Unset,
     maximumFileCount |-> Unset, maximumFieldsSize |-> Unset]

\* state.config undefined
NoConfig == [multipart |-> NoLimits, json |-> [maximumSize |-> Unset]]

\* multipart: { maximumFileSize: 100, maximumFileCount: 1 }
UploadConfig ==
    [multipart |-> Limits(Unset, 100, 1, Unset), json |-> [maximumSize |-> Unset]]

\* multipart: { maximumFileSize: 100, maximumFileCount: 1, maximumFieldsSize: 50 }
BoundedUploadConfig ==
    [multipart |-> Limits(Unset, 100, 1, 50), json |-> [maximumSize |-> Unset]]

\* json: { maximumSize: 100 }
JSONConfig == [multipart |-> NoLimits, json |-> [maximumSize |-> 100]]

\* multipart: { minimumFileSize: 100 }
MinimumUploadConfig ==
    [multipart |-> Limits(100, Unset, Unset, Unset), json |-> [maximumSize |-> Unset]]

Configs == {NoConfig, UploadConfig, BoundedUploadConfig, MinimumUploadConfig, JSONConfig}

Request(method, upgrade, key, csrf, cookie, accept, charset, enc, ctype, clen, query, config) ==
    [method |-> method,
     headers |-> [h \in HeaderNames |->
        CASE h = "Upgrade" -> upgrade
          [] h = "Sec-WebSocket-Key" -> key
          [] h = CSRF_HEADER -> csrf
          [] h = "Accept" -> accept
          [] h = "Accept-Charset" -> charset
          [] h = "Content-Encoding" -> enc
          [] h = "Content-Type" -> ctype
          [] h = "Content-Length" -> clen],
     cookies |-> [c \in {AUTH_COOKIE_NAME} |-> cookie],
     query |-> query,
     config |-> config]

UpgradeForms == {<<Undefined, Undefined>>, <<"websocket", "key">>, <<"websocket", Undefined>>}

\* method, upgrade, CSRF header and auth cookie vary; the rest is acceptable
AuthRequests ==
    {Request(m, u[1], u[2], x, c, "*/*", "utf-8", Undefined, JSONContentType, "50",
             buildGETURL("v_obj"), NoConfig) :
        m \in {"GET", "POST"}, u \in UpgradeForms, x \in {Undefined, ""},
        c \in {Undefined, "token"}}

\* Accept and Accept-Charset vary, for upgrade and ordinary requests
AcceptRequests ==
    {Request("GET", u[1], u[2], "", "token", a, cs, Undefined, Undefined, Undefined,
             Undefined, NoConfig) :
        u \in {<<Undefined, Undefined>>, <<"websocket", "key">>},
        a \in {Undefined, "application/json", "text/html", "text/xml", "*/*"},
        cs \in {Undefined, "utf-8", "utf8", "iso-8859-1"}}

\* the content headers of a body request and the configured limits vary
ContentRequests ==
    {Request("POST", Undefined, Undefined, "", "token", "*/*", "utf-8", e, t, l,
             Undefined, cfg) :
        e \in {Undefined, "gzip"},
        t \in {Undefined, JSONContentType, "application/json", MultipartContentType,
               "application/json; charset=utf8", "application/json; charset=latin1",
               "text/plain; charset=utf-8"},
        l \in {Undefined, "abc", "50", "100", "500"},
        cfg \in Configs}

\* the URL query of a GET request varies
QueryRequests ==
    {Request("GET", Undefined, Undefined, "", "token", "*/*", "utf-8", Undefined,
             Undefined, Undefined, q, NoConfig) :
        q \in {Undefined} \cup {encodeURIComponent(t) : t \in Texts}}

\* requests that break several checks of the headers stage at once
OrderRequests ==
    {Request(m, u[1], u[2], x[1], x[2], a, "utf-8", Undefined, t, "50",
             Undefined, NoConfig) :
        m \in {"GET", "POST"},
        u \in {<<Undefined, Undefined>>, <<"websocket", "key">>},
        x \in {<<"", "token">>, <<Undefined, Undefined>>},
        a \in {"*/*", "text/xml"},
        t \in {JSONContentType, "text/plain; charset=utf-8"}}

Requests ==
    AuthRequests \cup AcceptRequests \cup ContentRequests \cup QueryRequests
        \cup OrderRequests


(***************************************************************************)
(* Collaborators of fallible-server and @hapi/accept, by their contracts.  *)
(***************************************************************************)
\* Result<ParsedWebSocketHeaders, ParseWebSocketHeadersError>
parseWebSocketHeaders(headers) ==
    IF headers["Upgrade"] = "websocket" /\ headers["Sec-WebSocket-Key"] # Undefined
    THEN [ok |-> TRUE, value |-> "ParsedWebSocketHeaders"]
    ELSE [ok |-> FALSE, value |-> "ParseWebSocketHeadersError"]

messageIsWebSocketRequest(m) == m.headers["Upgrade"] = "websocket"

\* { type, characterSet? } of a Content-Type header, type Undefined if unparsable
parseContentTypeHeader(header) ==
    CASE header = "application/json; charset=utf-8" ->
            [type |-> "application/json", characterSet |-> "utf-8"]
      [] header = "application/json" ->
            [type |-> "application/json", characterSet |-> Undefined]
      [] header = "application/json; charset=utf8" ->
            [type |-> "application/json", characterSet |-> "utf8"]
      [] header = "application/json; charset=latin1" ->
            [type |-> "application/json", characterSet |-> "latin1"]
      [] header = "text/plain; charset=utf-8" ->
            [type |-> "text/plain", characterSet |-> "utf-8"]
      [] header = "multipart/form-data; boundary=x" ->
            [type |-> "multipart/form-data", characterSet |-> Undefined]
      [] header = "text/html; charset=utf-8" ->
            [type |-> "text/html", characterSet |-> "utf-8"]
      [] header = "image/png; charset=utf-8" ->
            [type |-> "image/png", characterSet |-> "utf-8"]
      [] header = "image/png" ->
            [type |-> "image/png", characterSet |-> Undefined]
      [] OTHER -> [type |-> Undefined, characterSet |-> Undefined]

parseContentLengthHeader(header) ==
    CASE header = "50" -> 50
      [] header = "100" -> 100
      [] header = "500" -> 500
      [] OTHER -> Unset

\* the media types of an Accept header, most preferred first
preferredContentTypes(header) ==
    CASE header = "application/json" -> <<"application/json">>
      [] header = "text/html" -> <<"text/html">>
      [] header = "text/xml" -> <<"text/xml">>
      [] header = "*/*" -> <<"*/*">>
      [] OTHER -> <<>>

\* the charsets of an Accept-Charset header, most preferred first
preferredCharsets(header) ==
    CASE header = "utf-8" -> <<"utf-8">>
      [] header = "utf8" -> <<"utf8">>
      [] header = "iso-8859-1" -> <<"iso-8859-1">>
      [] OTHER -> <<>>

StartsWithMultipart(header) == header = MultipartContentType

(***************************************************************************)
(* The check functions.  Each answers the tag of the exception it throws,  *)
(* or NoError when it returns.                                             *)
(***************************************************************************)
isJSONOrAnyContentType(contentType) == contentType \in {"application/json", "*/*"}

isHTMLOrAnyContentType(contentType) == contentType \in {"text/html", "*/*"}

isHTMLOrJSONOrAnyContentType(contentType) ==
    contentType \in {"text/html", "application/json", "*/*"}

isUTF8Charset(charset) == charset \in {"utf-8", "utf8"}

\* /^utf-?8$/ matched against a character set
MatchesUTF8Pattern(characterSet) == characterSet \in {"utf-8", "utf8"}

\* characterSet?.match(...) !== null is true when characterSet is undefined
isUTF8JSONContentTypeHeader_A(header) ==
    IF header = Undefined
    THEN FALSE
    ELSE LET contentType == parseContentTypeHeader(header)
         IN  /\ contentType.type = "application/json"
             /\ (contentType.characterSet = Undefined
                    \/ MatchesUTF8Pattern(contentType.characterSet))

isUTF8JSONContentTypeHeader_B(header) ==
    IF header = Undefined
    THEN FALSE
    ELSE LET contentType == parseContentTypeHeader(header)
         IN  /\ contentType.type # Undefined
             /\ contentType.characterSet # Undefined
             /\ contentType.type = "application/json"
             /\ isUTF8Charset(contentType.characterSet)

isUTF8JSONContentTypeHeader_C(header) ==
    IF header = Undefined
    THEN FALSE
    ELSE LET contentType == parseContentTypeHeader(header)
         IN  /\ contentType.type # Undefined
             /\ contentType.type = "application/json"
             /\ isUTF8Charset(contentType.characterSet)

\* /^utf-?8$/.test(undefined) tests the text "undefined"
isUTF8JSONContentTypeHeader_D(header) ==
    IF header = Undefined
    THEN FALSE
    ELSE LET contentType == parseContentTypeHeader(header)
         IN  /\ contentType.type # Undefined
             /\ contentType.type = "application/json"
             /\ MatchesUTF8Pattern(contentType.characterSet)

checkUpgradeForWebSocketEndpointWithNoResponses(headers) ==
    IF ~parseWebSocketHeaders(headers).ok THEN "UpgradeError" ELSE NoError

checkUpgradeForNonWebSocketEndpoint(headers) ==
    IF headers["Upgrade"] # Undefined THEN "UpgradeDenied" ELSE NoError

checkUpgradeForNoResponsesWebsocketEndpoint(isWebsocketRequest) ==
    IF ~isWebsocketRequest THEN "UpgradeRequired" ELSE NoError

\* an upgrade check that lets every request through
checkUpgradeAllowingUpgrade(isWebsocketRequest) == NoError

checkUpgradeForNonWebsocketEndpoint(isWebsocketRequest) ==
    IF isWebsocketRequest THEN "UpgradeDenied" ELSE NoError

\* the two checks of checkAuthForRequiredAuthEndpoint in the other order
checkAuthCookieBeforeCSRF(headers, cookies) ==
    IF cookies[AUTH_COOKIE_NAME] = Undefined THEN "AuthRequired"
    ELSE IF headers[CSRF_HEADER] = Undefined THEN "CSRFHeaderRequired"
    ELSE NoError

checkAuthForRequiredAuthEndpoint(headers, cookies) ==
    IF headers[CSRF_HEADER] = Undefined THEN "CSRFHeaderRequired"
    ELSE IF cookies[AUTH_COOKIE_NAME] = Undefined THEN "AuthRequired"
    ELSE NoError

\* the optional-auth check without the CSRF header test
checkAuthWithoutCSRF(headers) == NoError

checkAuthForOptionalAuthEndpoint(headers) ==
    IF headers[CSRF_HEADER] = Undefined THEN "CSRFHeaderRequired" ELSE NoError

\* a call of the selected contentTypeMatcher, selected by its name
MatchContentType(matchContentType, contentType) ==
    CASE matchContentType = "isJSONOrAnyContentType" ->
            isJSONOrAnyContentType(contentType)
      [] matchContentType = "isHTMLOrAnyContentType" ->
            isHTMLOrAnyContentType(contentType)
      [] OTHER -> isHTMLOrJSONOrAnyContentType(contentType)

\* an Accept check that negotiates for upgrade requests too
checkAcceptOfUpgradeRequestsToo(headers, isWebsocketRequest, matchContentType) ==
    LET types == preferredContentTypes(headers["Accept"])
        charsets == preferredCharsets(headers["Accept-Charset"])
    IN  IF \/ headers["Accept"] = Undefined
           \/ ~\E i \in 1..Len(types) : MatchContentType(matchContentType, types[i])
        THEN "InvalidAcceptHeader"
        ELSE IF \/ headers["Accept-Charset"] = Undefined
                \/ ~\E i \in 1..Len(charsets) : isUTF8Charset(charsets[i])
        THEN "InvalidAcceptCharsetHeader"
        ELSE NoError

checkAcceptForEndpointWithResponses(headers, isWebsocketRequest, matchContentType) ==
    LET types == preferredContentTypes(headers["Accept"])
        charsets == preferredCharsets(headers["Accept-Charset"])
    IN  IF isWebsocketRequest THEN NoError
        ELSE IF \/ headers["Accept"] = Undefined
                \/ ~\E i \in 1..Len(types) : MatchContentType(matchContentType, types[i])
        THEN "InvalidAcceptHeader"
        ELSE IF \/ headers["Accept-Charset"] = Undefined
                \/ ~\E i \in 1..Len(charsets) : isUTF8Charset(charsets[i])
        THEN "InvalidAcceptCharsetHeader"
        ELSE NoError

checkContentEncodingForBodyEndpoint(headers) ==
    IF headers["Content-Encoding"] # Undefined
    THEN "UnsupportedContentEncodingHeader"
    ELSE NoError

\* the tag getContentLength throws, or NoError when it returns a length
getContentLength(headers) ==
    IF headers["Content-Length"] = Undefined THEN "InvalidContentLengthHeader"
    ELSE IF parseContentLengthHeader(headers["Content-Length"]) = Unset
    THEN "InvalidContentLengthHeader"
    ELSE NoError

\* a destructuring default: the option's value, or dflt when it is undefined
Default(option, dflt) == IF option = Unset THEN dflt ELSE option

\* JS number arithmetic on naturals and Infinity; 0 * Infinity is NaN (Unset)
Times(a, b) ==
    IF a = Infinity \/ b = Infinity
    THEN (IF a = 0 \/ b = 0 THEN Unset ELSE Infinity)
    ELSE a * b

Plus(a, b) ==
    IF a = Unset \/ b = Unset THEN Unset
    ELSE IF a = Infinity \/ b = Infinity THEN Infinity
    ELSE a + b

\* a > b in JS, false when either side is NaN or undefined
Greater(a, b) == a # Unset /\ b # Unset /\ a > b

checkContentForBodyEndpointWithFiles_A(headers, config) ==
    IF checkContentEncodingForBodyEndpoint(headers) # NoError
    THEN checkContentEncodingForBodyEndpoint(headers)
    ELSE IF ~(headers["Content-Type"] # Undefined
                /\ StartsWithMultipart(headers["Content-Type"]))
    THEN "InvalidContentTypeHeader"
    ELSE IF ~config.multipart.defined
    THEN NoError
    ELSE LET minimumFileSize == Default(config.multipart.minimumFileSize, 0)
             maximumFileSize == Default(config.multipart.maximumFileSize, Infinity)
             maximumFileCount == Default(config.multipart.maximumFileCount, Infinity)
             maximumFieldsSize == Default(config.multipart.maximumFieldsSize, Infinity)
             length == parseContentLengthHeader(headers["Content-Length"])
         IN  IF getContentLength(headers) # NoError
             THEN getContentLength(headers)
             ELSE IF Greater(minimumFileSize, length)
             THEN "MultipartFileBelowMinimumSize"
             ELSE IF Greater(length,
                        Plus(Times(maximumFileSize, maximumFileCount), maximumFieldsSize))
             THEN "MultipartMaximumTotalFileSizeExceeded"
             ELSE NoError

checkContentForBodyEndpointWithFiles_C(headers, config) ==
    IF checkContentEncodingForBodyEndpoint(headers) # NoError
    THEN checkContentEncodingForBodyEndpoint(headers)
    ELSE IF ~(headers["Content-Type"] # Undefined
                /\ StartsWithMultipart(headers["Content-Type"]))
    THEN "InvalidContentTypeHeader"
    ELSE IF headers["Content-Length"] = Undefined
    THEN "MissingContentLengthHeader"
    ELSE LET length == parseContentLengthHeader(headers["Content-Length"])
         IN  IF Greater(config.multipart.minimumFileSize, length)
             THEN "MultipartFileBelowMinimumSize"
             ELSE IF Greater(length, config.multipart.maximumFileSize)
             THEN "MultipartMaximumFileSizeExceeded"
             ELSE NoError

checkContentTypeForBodyEndpointWithFiles(headers) ==
    IF ~(headers["Content-Type"] # Undefined
            /\ StartsWithMultipart(headers["Content-Type"]))
    THEN "InvalidContentTypeHeader"
    ELSE NoError

checkContentTypeForBodyEndpointWithInputButNoFiles(headers) ==
    IF ~isUTF8JSONContentTypeHeader_B(headers["Content-Type"])
    THEN "InvalidContentTypeHeader"
    ELSE NoError

\* length > config?.json?.maximumSize ?? Infinity parses as
\* (length > maximumSize) ?? Infinity
checkContentForBodyEndpointWithInputButNoFiles_A(headers, config) ==
    IF checkContentEncodingForBodyEndpoint(headers) # NoError
    THEN checkContentEncodingForBodyEndpoint(headers)
    ELSE IF ~isUTF8JSONContentTypeHeader_A(headers["Content-Type"])
    THEN "InvalidContentTypeHeader"
    ELSE IF getContentLength(headers) # NoError
    THEN getContentLength(headers)
    ELSE IF Greater(parseContentLengthHeader(headers["Content-Length"]),
                    config.json.maximumSize)
    THEN "JSONMaximumSizeExceeded"
    ELSE NoError

checkContentForBodyEndpointWithInputButNoFiles_D(headers, config) ==
    IF checkContentEncodingForBodyEndpoint(headers) # NoError
    THEN checkContentEncodingForBodyEndpoint(headers)
    ELSE IF ~isUTF8JSONContentTypeHeader_D(headers["Content-Type"])
    THEN "InvalidContentTypeHeader"
    ELSE IF getContentLength(headers) # NoError
    THEN getContentLength(headers)
    ELSE IF Greater(parseContentLengthHeader(headers["Content-Length"]),
                    config.json.maximumSize)
    THEN "JSONMaximumSizeExceeded"
    ELSE NoError

checkContentForBodyEndpointWithInputButNoFiles_C(headers, config) ==
    IF checkContentEncodingForBodyEndpoint(headers) # NoError
    THEN checkContentEncodingForBodyEndpoint(headers)
    ELSE IF ~isUTF8JSONContentTypeHeader_C(headers["Content-Type"])
    THEN "InvalidContentTypeHeader"
    ELSE IF headers["Content-Length"] = Undefined
    THEN "MissingContentLengthHeader"
    ELSE IF Greater(parseContentLengthHeader(headers["Content-Length"]),
                    config.json.maximumSize)
    THEN "JSONMaximumSizeExceeded"
    ELSE NoError


(***************************************************************************)
(* createEndpointHandler: the stage set selected from the descriptor.      *)
(* A selected function is recorded by its name, Undefined when none is     *)
(* selected.                                                               *)
(***************************************************************************)
Method(e) == IF e.method = Undefined THEN "GET" ELSE e.method

hasHTMLResponse(e) == \E s \in DOMAIN e.responses : e.responses[s] = "html"

\* every response that is not html counts as a JSON response
hasJSONResponse(e) == \E s \in DOMAIN e.responses : e.responses[s] # "html"

hasResponses(e) == hasJSONResponse(e) \/ hasHTMLResponse(e)

SelectCheckUpgrade_A(e) ==
    IF e.websocket
    THEN IF hasResponses(e)
         THEN "checkUpgradeForWebSocketEndpointWithResponses"
         ELSE "checkUpgradeForWebSocketEndpointWithNoResponses"
    ELSE "checkUpgradeForNonWebSocketEndpoint"

\* a checkUpgrade selection that ignores the declared responses
SelectCheckUpgradeIgnoringResponses(e) ==
    IF e.websocket
    THEN "checkUpgradeForNoResponsesWebsocketEndpoint"
    ELSE "checkUpgradeForNonWebsocketEndpoint"

SelectCheckUpgrade_B(e) ==
    IF e.websocket
    THEN IF ~hasResponses(e)
         THEN "checkUpgradeForNoResponsesWebsocketEndpoint"
         ELSE Undefined
    ELSE "checkUpgradeForNonWebsocketEndpoint"

\* the switch on endpoint.auth whose default throws
SelectCheckAuth_A(e) ==
    CASE e.auth = "required" -> "checkAuthForRequiredAuthEndpoint"
      [] e.auth = "optional" -> "checkAuthForOptionalAuthEndpoint"
      [] OTHER -> Throws

\* the switch on endpoint.auth without a default
SelectCheckAuth_B(e) ==
    CASE e.auth = "required" -> "checkAuthForRequiredAuthEndpoint"
      [] e.auth = "optional" -> "checkAuthForOptionalAuthEndpoint"
      [] OTHER -> Undefined

SelectContentTypeMatcher(e) ==
    IF hasJSONResponse(e) /\ ~hasHTMLResponse(e) THEN "isJSONOrAnyContentType"
    ELSE IF ~hasJSONResponse(e) /\ hasHTMLResponse(e) THEN "isHTMLOrAnyContentType"
    ELSE "isHTMLOrJSONOrAnyContentType"

SelectCheckAccept(e) ==
    IF hasResponses(e) THEN "checkAcceptForEndpointWithResponses" ELSE Undefined

SelectCheckContent(e) ==
    IF Method(e) # "GET"
    THEN IF ~e.files
         THEN IF e.input
              THEN "checkContentForBodyEndpointWithInputButNoFiles"
              ELSE Undefined
         ELSE "checkContentForBodyEndpointWithFiles"
    ELSE Undefined

\* which bodyParsingAndValidationHandler closure is built; Undefined leaves
\* the stage out of the chain
SelectBodyParsing_A(e) ==
    IF Method(e) = "GET"
    THEN IF e.input THEN "query" ELSE Undefined
    ELSE IF e.files
    THEN IF ~e.input THEN "files" ELSE "filesAndInput"
    ELSE IF e.input THEN "json"
    ELSE Undefined

SelectBodyParsing_B(e) ==
    IF Method(e) = "GET"
    THEN IF ~e.input THEN "noBodyParsingHandler" ELSE "query"
    ELSE IF e.files
    THEN IF ~e.input THEN "files" ELSE "filesAndInput"
    ELSE IF e.input THEN "json"
    ELSE "noBodyParsingHandler"

NoHandler ==
    [status |-> "none", method |-> Undefined, checkUpgrade |-> Undefined,
     checkAuth |-> Undefined, contentTypeMatcher |-> Undefined,
     checkAccept |-> Undefined, checkContent |-> Undefined,
     bodyParsing |-> Undefined]

createEndpointHandler_A(e) ==
    IF SelectCheckAuth_A(e) = Throws
    THEN [NoHandler EXCEPT !.status = "threw"]
    ELSE [status |-> "built", method |-> Method(e),
          checkUpgrade |-> SelectCheckUpgrade_A(e),
          checkAuth |-> SelectCheckAuth_A(e),
          contentTypeMatcher |-> Undefined,
          checkAccept |-> Undefined,
          checkContent |-> SelectCheckContent(e),
          bodyParsing |-> SelectBodyParsing_A(e)]

createEndpointHandler_B(e) ==
    [status |-> "built", method |-> Method(e),
     checkUpgrade |-> SelectCheckUpgrade_B(e),
     checkAuth |-> SelectCheckAuth_B(e),
     contentTypeMatcher |-> SelectContentTypeMatcher(e),
     checkAccept |-> SelectCheckAccept(e),
     checkContent |-> SelectCheckContent(e),
     bodyParsing |-> SelectBodyParsing_B(e)]

createEndpointHandler_C(e) ==
    IF SelectCheckAuth_A(e) = Throws
    THEN [NoHandler EXCEPT !.status = "threw"]
    ELSE [status |-> "built", method |-> Method(e),
          checkUpgrade |-> SelectCheckUpgrade_B(e),
          checkAuth |-> SelectCheckAuth_A(e),
          contentTypeMatcher |-> SelectContentTypeMatcher(e),
          checkAccept |-> SelectCheckAccept(e),
          checkContent |-> SelectCheckContent(e),
          bodyParsing |-> SelectBodyParsing_B(e)]

createEndpointHandler(v, e) ==
    CASE v \in {"A", "D"} -> createEndpointHandler_A(e)
      [] v = "B" -> createEndpointHandler_B(e)
      [] v = "C" -> createEndpointHandler_C(e)

(***************************************************************************)
(* Results.  A Result is ok with a pipeline state or an error with a       *)
(* tagged error.  The pipeline state carries the request it began with     *)
(* (pre) and the fields the stages add; a field not yet added is Absent.   *)
(***************************************************************************)
NoTaggedError == [tag |-> NoError, detail |-> Undefined]

PreState(m) ==
    [pre |-> m, webSocket |-> Absent, isWebsocketRequest |-> Absent,
     token |-> Absent, session |-> Absent, input |-> Absent, files |-> Absent]

NoState == PreState(Undefined)

errorResponse(tag, detail) ==
    [ok |-> FALSE, state |-> NoState, error |-> [tag |-> tag, detail |-> detail]]

okResponse(state) == [ok |-> TRUE, state |-> state, error |-> NoTaggedError]

\* the context an error carries besides its tag
Detail(tag, m) ==
    CASE tag = "UpgradeError" -> parseWebSocketHeaders(m.headers).value
      [] tag = "InvalidAcceptHeader" -> m.headers["Accept"]
      [] tag = "InvalidAcceptCharsetHeader" -> m.headers["Accept-Charset"]
      [] tag = "InvalidContentTypeHeader" -> m.headers["Content-Type"]
      [] tag = "UnsupportedContentEncodingHeader" -> m.headers["Content-Encoding"]
      [] OTHER -> Undefined

\* the first exception thrown by a sequence of checks
FirstError(tags) ==
    IF \E i \in 1..Len(tags) : tags[i] # NoError
    THEN tags[CHOOSE i \in 1..Len(tags) :
                /\ tags[i] # NoError
                /\ \A j \in 1..(i - 1) : tags[j] = NoError]
    ELSE NoError

CallCheckUpgrade_A(h, m) ==
    CASE h.checkUpgrade = "checkUpgradeForWebSocketEndpointWithNoResponses" ->
            checkUpgradeForWebSocketEndpointWithNoResponses(m.headers)
      [] h.checkUpgrade = "checkUpgradeForNonWebSocketEndpoint" ->
            checkUpgradeForNonWebSocketEndpoint(m.headers)
      [] OTHER -> NoError

\* what checkUpgrade returns: nothing, the parsed headers, or their Result
UpgradeValue_A(h, m) ==
    CASE h.checkUpgrade = "checkUpgradeForWebSocketEndpointWithNoResponses" ->
            parseWebSocketHeaders(m.headers).value
      [] h.checkUpgrade = "checkUpgradeForWebSocketEndpointWithResponses" ->
            IF parseWebSocketHeaders(m.headers).ok
            THEN "ok(ParsedWebSocketHeaders)"
            ELSE "error(ParseWebSocketHeadersError)"
      [] OTHER -> Undefined

CallCheckUpgrade_B(h, m) ==
    CASE h.checkUpgrade = "checkUpgradeForNoResponsesWebsocketEndpoint" ->
            checkUpgradeForNoResponsesWebsocketEndpoint(messageIsWebSocketRequest(m))
      [] h.checkUpgrade = "checkUpgradeForNonWebsocketEndpoint" ->
            checkUpgradeForNonWebsocketEndpoint(messageIsWebSocketRequest(m))
      [] OTHER -> NoError

CallCheckAuth(h, m) ==
    CASE h.checkAuth = "checkAuthForRequiredAuthEndpoint" ->
            checkAuthForRequiredAuthEndpoint(m.headers, m.cookies)
      [] h.checkAuth = "checkAuthForOptionalAuthEndpoint" ->
            checkAuthForOptionalAuthEndpoint(m.headers)
      [] OTHER -> NoError

CallCheckAccept(h, m) ==
    IF h.checkAccept = Undefined THEN NoError
    ELSE checkAcceptForEndpointWithResponses(
            m.headers, messageIsWebSocketRequest(m), h.contentTypeMatcher)

CallCheckContent_A(h, m) ==
    CASE h.checkContent = "checkContentForBodyEndpointWithFiles" ->
            checkContentForBodyEndpointWithFiles_A(m.headers, m.config)
      [] h.checkContent = "checkContentForBodyEndpointWithInputButNoFiles" ->
            checkContentForBodyEndpointWithInputButNoFiles_A(m.headers, m.config)
      [] OTHER -> NoError

CallCheckContent_B(h, m) ==
    CASE h.checkContent = "checkContentForBodyEndpointWithFiles" ->
            checkContentTypeForBodyEndpointWithFiles(m.headers)
      [] h.checkContent = "checkContentForBodyEndpointWithInputButNoFiles" ->
            checkContentTypeForBodyEndpointWithInputButNoFiles(m.headers)
      [] OTHER -> NoError

CallCheckContent_C(h, m) ==
    CASE h.checkContent = "checkContentForBodyEndpointWithFiles" ->
            checkContentForBodyEndpointWithFiles_C(m.headers, m.config)
      [] h.checkContent = "checkContentForBodyEndpointWithInputButNoFiles" ->
            checkContentForBodyEndpointWithInputButNoFiles_C(m.headers, m.config)
      [] OTHER -> NoError

CallCheckContent_D(h, m) ==
    CASE h.checkContent = "checkContentForBodyEndpointWithFiles" ->
            checkContentForBodyEndpointWithFiles_A(m.headers, m.config)
      [] h.checkContent = "checkContentForBodyEndpointWithInputButNoFiles" ->
            checkContentForBodyEndpointWithInputButNoFiles_D(m.headers, m.config)
      [] OTHER -> NoError

Bool(b) == IF b THEN "true" ELSE "false"

headersHandler_A(h, m) ==
    IF m.method # h.method
    THEN errorResponse("WrongMethod", m.method)
    ELSE LET thrown == FirstError(<<CallCheckUpgrade_A(h, m),
                                    CallCheckAuth(h, m),
                                    CallCheckContent_A(h, m)>>)
         IN  IF thrown # NoError
             THEN errorResponse(thrown, Detail(thrown, m))
             ELSE okResponse([PreState(m) EXCEPT
                                !.webSocket = UpgradeValue_A(h, m),
                                !.token = m.cookies[AUTH_COOKIE_NAME]])

headersHandler_B(h, m) ==
    IF m.method # h.method
    THEN errorResponse("WrongMethod", m.method)
    ELSE LET thrown == FirstError(<<CallCheckUpgrade_B(h, m),
                                    CallCheckAuth(h, m),
                                    CallCheckAccept(h, m),
                                    CallCheckContent_B(h, m)>>)
         IN  IF thrown # NoError
             THEN errorResponse(thrown, Detail(thrown, m))
             ELSE okResponse([PreState(m) EXCEPT
                                !.isWebsocketRequest = Bool(messageIsWebSocketRequest(m)),
                                !.token = m.cookies[AUTH_COOKIE_NAME]])

headersHandler_C(h, m) ==
    IF m.method # h.method
    THEN errorResponse("WrongMethod", m.method)
    ELSE LET thrown == FirstError(<<CallCheckUpgrade_B(h, m),
                                    CallCheckAuth(h, m),
                                    CallCheckAccept(h, m),
                                    CallCheckContent_C(h, m)>>)
         IN  IF thrown # NoError
             THEN errorResponse(thrown, Detail(thrown, m))
             ELSE okResponse([PreState(m) EXCEPT
                                !.isWebsocketRequest = Bool(messageIsWebSocketRequest(m)),
                                !.token = m.cookies[AUTH_COOKIE_NAME]])

headersHandler_D(h, m) ==
    IF m.method # h.method
    THEN errorResponse("WrongMethod", m.method)
    ELSE LET thrown == FirstError(<<CallCheckUpgrade_A(h, m),
                                    CallCheckAuth(h, m),
                                    CallCheckContent_D(h, m)>>)
         IN  IF thrown # NoError
             THEN errorResponse(thrown, Detail(thrown, m))
             ELSE okResponse([PreState(m) EXCEPT
                                !.webSocket = UpgradeValue_A(h, m),
                                !.token = m.cookies[AUTH_COOKIE_NAME]])

\* a headers stage that runs the auth check before every other check
headersHandlerCheckingAuthFirst(v, h, m) ==
    IF CallCheckAuth(h, m) # NoError
    THEN errorResponse(CallCheckAuth(h, m), Detail(CallCheckAuth(h, m), m))
    ELSE CASE v = "A" -> headersHandler_A(h, m)
           [] v = "B" -> headersHandler_B(h, m)
           [] v = "C" -> headersHandler_C(h, m)
           [] v = "D" -> headersHandler_D(h, m)

headersHandler(v, h, m) ==
    CASE v = "A" -> headersHandler_A(h, m)
      [] v = "B" -> headersHandler_B(h, m)
      [] v = "C" -> headersHandler_C(h, m)
      [] v = "D" -> headersHandler_D(h, m)


(***************************************************************************)
(* The Body Reader (parseJSONStream, parseMultipartRequest): a Result      *)
(* {ok, value}; a fault is the value of a failed Result and carries the    *)
(* fault's tag.                                                            *)
(***************************************************************************)
JSONFaults == {"MaximumSizeExceeded", "ReadError", "DecodeError", "InvalidSyntax"}

MultipartFaults ==
    {"RequestAborted", "BelowMinimumFileSize", "MaximumFileCountExceeded",
     "MaximumFileSizeExceeded", "MaximumTotalFileSizeExceeded",
     "MaximumFieldsCountExceeded", "MaximumFieldsSizeExceeded", "UnknownError"}

NoBody == [json |-> Undefined, files |-> Undefined, field |-> Undefined]

Fault(tag) == [ok |-> FALSE, tag |-> tag, value |-> NoBody]

\* the Body Reader has not been invoked
NoRead == Fault(Absent)

Parsed(json, files, field) ==
    [ok |-> TRUE, tag |-> Undefined,
     value |-> [json |-> json, files |-> files, field |-> field]]

\* what parseJSONStream can answer
JSONReads ==
    {Fault(t) : t \in JSONFaults}
    \cup {Parsed(v, Undefined, Undefined) : v \in {"v_obj", "v_str"}}

\* what parseMultipartRequest can answer: a fault, or the files and the
\* text of the JSON_KEY field (Undefined when the form has no such field)
MultipartReads ==
    {Fault(t) : t \in MultipartFaults}
    \cup {Parsed(Undefined, f, t) :
            f \in {"validFiles", "invalidFiles"},
            t \in {Undefined, JSONStringify("v_obj"), JSONStringify("v_str"), "{a:"}}

\* variant B's parseJSONStream and parseMultipartStream answer a tagged
\* union instead: {tag, error} for a fault, {value} for a parsed body
JSONFaults_B ==
    {"LimitExceeded", "StreamClosed", "NonBufferChunk", "InvalidSyntax", "OtherError"}

MultipartFaults_B == {"FieldsTooLarge", "FilesTooLarge", "OtherError"}

JSONReads_B ==
    {Fault(t) : t \in JSONFaults_B}
    \cup {Parsed(v, Undefined, Undefined) : v \in {"v_obj", "v_str"}}

MultipartReads_B ==
    {Fault(t) : t \in MultipartFaults_B}
    \cup {Parsed(Undefined, f, t) :
            f \in {"validFiles", "invalidFiles"},
            t \in {Undefined, JSONStringify("v_obj"), JSONStringify("v_str"), "{a:"}}

\* the tag of variant B's tagged union: parseResult.tag
UnionTag(r) == r.tag

\* the tag of a failed Result's value: parseResult.value.tag
ValueTag(r) == IF r.ok THEN Undefined ELSE r.tag

\* the tag of a failed parse as variants C and D read it: parseResult.tag
\* (the Body Reader they were written for carries the fault's tag there)
ResultTag(r) == IF r.ok THEN Undefined ELSE r.tag

FilesShape == {"validFiles"}

\* a stage either returns a Result or throws an exception that is not a
\* tagged error
Returns(r) == [threw |-> FALSE, result |-> r]

Raises == [threw |-> TRUE, result |-> errorResponse(Throws, Undefined)]

\* a query handler that takes the parsed JSON without validating it
URLQueryHandlerWithoutValidation(state, m) ==
    IF m.query = Undefined
    THEN Returns(errorResponse("URLQueryRequired", Undefined))
    ELSE LET jsonParam == decodeURIComponent(m.query)
             json == parseJSONString(jsonParam)
         IN  IF json = Throws
             THEN Returns(errorResponse("URLQueryMalformed", jsonParam))
             ELSE Returns(okResponse([state EXCEPT !.input = json]))

\* GET + input: the value of the JSON_KEY query parameter
URLQueryHandler(state, m) ==
    IF m.query = Undefined
    THEN Returns(errorResponse("URLQueryRequired", Undefined))
    ELSE LET jsonParam == decodeURIComponent(m.query)
             json == parseJSONString(jsonParam)
             res == validate(InputShape, json)
         IN  IF json = Throws
             THEN Returns(errorResponse("URLQueryMalformed", jsonParam))
             ELSE IF ~res.success
             THEN Returns(errorResponse("URLQueryInputInvalid", json))
             ELSE Returns(okResponse([state EXCEPT !.input = res.value]))

\* the tag parseMultipart throws for a failed parse; Throws for the default case
MultipartFaultTag(tag) ==
    CASE tag = "InvalidMultipartContentTypeHeader" -> "InvalidContentTypeHeader"
      [] tag = "RequestAborted" -> "MultipartStreamClosed"
      [] tag = "BelowMinimumFileSize" -> "MultipartFileBelowMinimumSize"
      [] tag = "MaximumFileCountExceeded" -> "MultipartMaximumFileCountExceeded"
      [] tag = "MaximumFileSizeExceeded" -> "MultipartMaximumFileSizeExceeded"
      [] tag = "MaximumTotalFileSizeExceeded" -> "MultipartMaximumTotalFileSizeExceeded"
      [] tag = "MaximumFieldsCountExceeded" -> "MultipartMaximumFieldsCountExceeded"
      [] tag = "MaximumFieldsSizeExceeded" -> "MultipartMaximumFieldsSizeExceeded"
      [] tag = "UnknownError" -> "MultipartUnknownParseError"
      [] OTHER -> Throws

\* the same switch without the MaximumTotalFileSizeExceeded case
MultipartFaultTag_C(tag) ==
    IF tag \in {"MaximumTotalFileSizeExceeded", "InvalidMultipartContentTypeHeader"}
    THEN Throws
    ELSE MultipartFaultTag(tag)

\* parseMultipart: the tag thrown, or NoError when it returns files (and fields)
parseMultipart_A(r) ==
    IF ~r.ok THEN MultipartFaultTag(ValueTag(r))
    ELSE IF ~validate(FilesShape, r.value.files).success THEN "MultipartFilesInvalid"
    ELSE NoError

parseMultipart_C(r) ==
    IF ~r.ok THEN MultipartFaultTag_C(ResultTag(r))
    ELSE IF ~validate(FilesShape, r.value.files).success THEN "MultipartFilesInvalid"
    ELSE NoError

parseMultipart_D(r) ==
    IF ~r.ok THEN MultipartFaultTag(ResultTag(r))
    ELSE IF ~validate(FilesShape, r.value.files).success THEN "MultipartFilesInvalid"
    ELSE NoError

\* the JSON field of a multipart form, after the files validated
MultipartJSONField(state, r) ==
    IF r.value.field = Undefined
    THEN Returns(errorResponse("MultipartJSONFieldRequired", Undefined))
    ELSE LET json == parseJSONString(r.value.field)
             res == validate(InputShape, json)
         IN  IF json = Throws
             THEN Returns(errorResponse("MultipartJSONFieldMalformed", r.value.field))
             ELSE IF ~res.success
             THEN Returns(errorResponse("MultipartJSONFieldInputInvalid", json))
             ELSE Returns(okResponse([state EXCEPT !.input = res.value,
                                                   !.files = r.value.files]))

FilesHandler(thrown, state, r) ==
    IF thrown = Throws THEN Raises
    ELSE IF thrown # NoError THEN Returns(errorResponse(thrown, Undefined))
    ELSE Returns(okResponse([state EXCEPT !.files = r.value.files]))

FilesAndInputHandler(thrown, state, r) ==
    IF thrown = Throws THEN Raises
    ELSE IF thrown # NoError THEN Returns(errorResponse(thrown, Undefined))
    ELSE MultipartJSONField(state, r)

\* after parseMultipart returned, the handler reads parseResult, which is
\* not a variable of its scope: a ReferenceError
FilesAndInputHandler_C(thrown, state, r) ==
    IF thrown = Throws THEN Raises
    ELSE IF thrown # NoError THEN Returns(errorResponse(thrown, Undefined))
    ELSE Raises

\* parseMultipartStream answers are switched on parseResult.tag; every other
\* answer has its value.files validated
FilesHandler_B(state, r) ==
    CASE UnionTag(r) = "FieldsTooLarge" ->
            Returns(errorResponse("MultipartFieldsTooLarge", Undefined))
      [] UnionTag(r) = "FilesTooLarge" ->
            Returns(errorResponse("MultipartFilesTooLarge", Undefined))
      [] UnionTag(r) = "OtherError" ->
            Returns(errorResponse("MultipartUnknownParseError", Undefined))
      [] OTHER ->
            IF ~validate(FilesShape, r.value.files).success
            THEN Returns(errorResponse("MultipartFilesInvalid", r.value.files))
            ELSE Returns(okResponse([state EXCEPT !.files = r.value.files]))

FilesAndInputHandler_B(state, r) ==
    CASE UnionTag(r) = "FieldsTooLarge" ->
            Returns(errorResponse("MultipartFieldsTooLarge", Undefined))
      [] UnionTag(r) = "FilesTooLarge" ->
            Returns(errorResponse("MultipartFilesTooLarge", Undefined))
      [] UnionTag(r) = "OtherError" ->
            Returns(errorResponse("MultipartUnknownParseError", Undefined))
      [] OTHER ->
            IF ~validate(FilesShape, r.value.files).success
            THEN Returns(errorResponse("MultipartFilesInvalid", r.value.files))
            ELSE MultipartJSONField(state, r)

JSONInput(state, r) ==
    LET res == validate(InputShape, r.value.json)
    IN  IF ~res.success
        THEN Returns(errorResponse("JSONInputInvalid", r.value.json))
        ELSE Returns(okResponse([state EXCEPT !.input = res.value]))

JSONHandler_A(state, r) ==
    IF ~r.ok
    THEN CASE ValueTag(r) = "MaximumSizeExceeded" ->
                Returns(errorResponse("JSONMaximumSizeExceeded", Undefined))
           [] ValueTag(r) \in {"DecodeError", "InvalidSyntax"} ->
                Returns(errorResponse("JSONStreamMalformed", Undefined))
           [] OTHER -> Raises
    ELSE JSONInput(state, r)

JSONHandler_B(state, r) ==
    CASE UnionTag(r) = "LimitExceeded" ->
            Returns(errorResponse("JSONTooLarge", Undefined))
      [] UnionTag(r) = "StreamClosed" ->
            Returns(errorResponse("JSONStreamClosed", Undefined))
      [] UnionTag(r) \in {"NonBufferChunk", "InvalidSyntax"} ->
            Returns(errorResponse("JSONStreamMalformed", Undefined))
      [] UnionTag(r) = "OtherError" ->
            Returns(errorResponse("JSONStreamUnknownParseError", Undefined))
      [] OTHER -> JSONInput(state, r)

\* variants C and D: the switch reads parseResult.tag
JSONHandler_C(state, r) ==
    IF ~r.ok
    THEN CASE ResultTag(r) = "MaximumSizeExceeded" ->
                Returns(errorResponse("JSONMaximumSizeExceeded", Undefined))
           [] ResultTag(r) = "ReadError" ->
                Returns(errorResponse("JSONStreamClosed", Undefined))
           [] ResultTag(r) \in {"DecodeError", "InvalidSyntax"} ->
                Returns(errorResponse("JSONStreamMalformed", Undefined))
           [] OTHER -> Raises
    ELSE JSONInput(state, r)

noBodyParsingHandler(state) == Returns(okResponse(state))

\* whether the selected body-parsing closure awaits the Body Reader
UsesReader(h) == h.bodyParsing \in {"files", "filesAndInput", "json"}

Reads(v, h) ==
    CASE h.bodyParsing = "json" -> IF v = "B" THEN JSONReads_B ELSE JSONReads
      [] h.bodyParsing \in {"files", "filesAndInput"} ->
            IF v = "B" THEN MultipartReads_B ELSE MultipartReads
      [] OTHER -> {Fault(Undefined)}

bodyParsingAndValidationHandler_A(h, state, m, r) ==
    CASE h.bodyParsing = "query" -> URLQueryHandler(state, m)
      [] h.bodyParsing = "files" -> FilesHandler(parseMultipart_A(r), state, r)
      [] h.bodyParsing = "filesAndInput" ->
            FilesAndInputHandler(parseMultipart_A(r), state, r)
      [] h.bodyParsing = "json" -> JSONHandler_A(state, r)

bodyParsingAndValidationHandler_B(h, state, m, r) ==
    CASE h.bodyParsing = "query" -> URLQueryHandler(state, m)
      [] h.bodyParsing = "files" -> FilesHandler_B(state, r)
      [] h.bodyParsing = "filesAndInput" -> FilesAndInputHandler_B(state, r)
      [] h.bodyParsing = "json" -> JSONHandler_B(state, r)
      [] h.bodyParsing = "noBodyParsingHandler" -> noBodyParsingHandler(state)

bodyParsingAndValidationHandler_C(h, state, m, r) ==
    CASE h.bodyParsing = "query" -> URLQueryHandler(state, m)
      [] h.bodyParsing = "files" -> FilesHandler(parseMultipart_C(r), state, r)
      [] h.bodyParsing = "filesAndInput" ->
            FilesAndInputHandler_C(parseMultipart_C(r), state, r)
      [] h.bodyParsing = "json" -> JSONHandler_C(state, r)
      [] h.bodyParsing = "noBodyParsingHandler" -> noBodyParsingHandler(state)

bodyParsingAndValidationHandler_D(h, state, m, r) ==
    CASE h.bodyParsing = "query" -> URLQueryHandler(state, m)
      [] h.bodyParsing = "files" -> FilesHandler(parseMultipart_D(r), state, r)
      [] h.bodyParsing = "filesAndInput" ->
            FilesAndInputHandler(parseMultipart_D(r), state, r)
      [] h.bodyParsing = "json" -> JSONHandler_C(state, r)

bodyParsingAndValidationHandler(v, h, state, m, r) ==
    CASE v = "A" -> bodyParsingAndValidationHandler_A(h, state, m, r)
      [] v = "B" -> bodyParsingAndValidationHandler_B(h, state, m, r)
      [] v = "C" -> bodyParsingAndValidationHandler_C(h, state, m, r)
      [] v = "D" -> bodyParsingAndValidationHandler_D(h, state, m, r)


(***************************************************************************)
(* The user stages.  sessionHandler answers a Result; bodyHandler is       *)
(* handed the Result of the result-returning stages, failed or not, and    *)
(* answers a BodyHandlerState: a response {status, body, headers?} or a    *)
(* WebSocket accept record.                                                *)
(***************************************************************************)
SessionOutcomes(state) ==
    {okResponse([state EXCEPT !.session = "session"]),
     errorResponse("SessionError", Undefined)}

NoHeaders == [present |-> FALSE, contentType |-> Undefined]

\* headers absent, headers without a Content-Type, headers with one
HeadersOptions ==
    {NoHeaders,
     [present |-> TRUE, contentType |-> Undefined],
     [present |-> TRUE, contentType |-> "text/plain"]}

KindOf(e, status) ==
    IF status \in DOMAIN e.responses THEN e.responses[status] ELSE Undefined

\* the body bodyHandler answers for a response of a kind
BodyFor(kind) ==
    CASE kind = "json" ->
            [value |-> "v_obj", data |-> Undefined, mimetype |-> Undefined]
      [] kind = "binary" ->
            [value |-> Undefined, data |-> "bytes", mimetype |-> "image/png"]
      [] OTHER ->
            [value |-> "<p>", data |-> Undefined, mimetype |-> Undefined]

NoOut == [accept |-> FALSE, status |-> 0, body |-> BodyFor("html"), headers |-> NoHeaders]

\* the accept record of variants A and D has no status; in B and C an
\* accepted upgrade is a response of status 101
AcceptOut(v) ==
    [accept |-> TRUE, status |-> IF v \in {"B", "C"} THEN 101 ELSE 0,
     body |-> BodyFor("html"), headers |-> NoHeaders]

BodyOutcomes(v, e) ==
    {[accept |-> FALSE, status |-> s, body |-> BodyFor(KindOf(e, s)), headers |-> hd] :
        s \in DOMAIN e.responses \cup {500}, hd \in HeadersOptions}
    \cup (IF e.websocket THEN {AcceptOut(v)} ELSE {})

(***************************************************************************)
(* finalHandler: the wire response for what bodyHandler answered.          *)
(***************************************************************************)
NoWire == [kind |-> "none", status |-> 0, body |-> Undefined, contentType |-> Undefined]

Upgrade(o) ==
    [kind |-> "upgrade", status |-> o.status, body |-> "callbacks",
     contentType |-> Undefined]

response(status, body, contentType) ==
    [kind |-> "response", status |-> status, body |-> body, contentType |-> contentType]

\* variants A and D: state.headers is read with has() and written with set()
finalHandler_A(e, o) ==
    IF o.accept
    THEN Returns(Upgrade(o))
    ELSE CASE KindOf(e, o.status) = "html" ->
                Returns(response(o.status, o.body.value, o.headers.contentType))
           [] KindOf(e, o.status) = "json" ->
                IF ~o.headers.present THEN Raises
                ELSE Returns(response(o.status, JSONStringify(o.body.value),
                        IF o.headers.contentType = Undefined
                        THEN "application/json; charset=utf-8"
                        ELSE o.headers.contentType))
           [] KindOf(e, o.status) = "binary" ->
                IF ~o.headers.present THEN Raises
                ELSE IF o.headers.contentType = Undefined THEN Raises
                ELSE Returns(response(o.status, o.body.data, o.headers.contentType))
           [] OTHER -> Raises

\* variant B: Content-Type is written after the user's headers; a binary
\* response matches no case and the handler returns undefined
finalHandler_B(e, o) ==
    IF o.status = 101
    THEN Returns(Upgrade(o))
    ELSE CASE KindOf(e, o.status) = "html" ->
                Returns(response(o.status, o.body.value, o.headers.contentType))
           [] KindOf(e, o.status) = "json" ->
                Returns(response(o.status, JSONStringify(o.body.value),
                        "application/json; charset=utf-8"))
           [] KindOf(e, o.status) = Undefined -> Raises
           [] OTHER -> Returns([NoWire EXCEPT !.kind = "undefined"])

\* variant C: Content-Type is written before the user's headers
finalHandler_C(e, o) ==
    IF o.status = 101
    THEN Returns(Upgrade(o))
    ELSE CASE KindOf(e, o.status) = "html" ->
                Returns(response(o.status, o.body.value, o.headers.contentType))
           [] KindOf(e, o.status) = "json" ->
                Returns(response(o.status, JSONStringify(o.body.value),
                        IF o.headers.contentType = Undefined
                        THEN "application/json; charset=utf-8"
                        ELSE o.headers.contentType))
           [] KindOf(e, o.status) = "binary" ->
                Returns(response(o.status, o.body.data,
                        IF o.headers.contentType = Undefined
                        THEN o.body.mimetype
                        ELSE o.headers.contentType))
           [] OTHER -> Raises

\* the headers object of bodyHandler's answer once finalHandler has run:
\* variants A and D write the JSON Content-Type into the object itself,
\* variants B and C build a new object
finalHandlerHeaders(v, e, o) ==
    IF /\ v \in {"A", "D"}
       /\ ~o.accept
       /\ KindOf(e, o.status) = "json"
       /\ o.headers.present
       /\ o.headers.contentType = Undefined
    THEN [o.headers EXCEPT !.contentType = "application/json; charset=utf-8"]
    ELSE o.headers

\* a shaper that passes a response of an undeclared status through
finalHandlerCoercingUndeclaredStatus(v, e, o) ==
    IF ~o.accept /\ KindOf(e, o.status) = Undefined
    THEN Returns(response(o.status, o.body.value, o.headers.contentType))
    ELSE CASE v \in {"A", "D"} -> finalHandler_A(e, o)
           [] v = "B" -> finalHandler_B(e, o)
           [] v = "C" -> finalHandler_C(e, o)

finalHandler(v, e, o) ==
    CASE v \in {"A", "D"} -> finalHandler_A(e, o)
      [] v = "B" -> finalHandler_B(e, o)
      [] v = "C" -> finalHandler_C(e, o)

(***************************************************************************)
(* The composed handler.  pc is the position of the request in the chain   *)
(*   headersHandler -> sessionHandler -> bodyParsingAndValidationHandler   *)
(*   -> bodyHandler -> finalHandler                                        *)
(* The first three are composed as result handlers: a failed Result skips  *)
(* the rest of them and is what bodyHandler is handed.                     *)
(***************************************************************************)
(***************************************************************************)
(* The WebSocket phase.  After an accepted upgrade the transport calls the *)
(* callbacks of the response: the open callback once, the message callback *)
(* for each inbound frame.  A user callback is an iterator: the values it  *)
(* yields and the value it returns (the close instruction, or undefined).  *)
(***************************************************************************)
MaxFrames == 2

CloseWebSocket == "CloseWebSocket"

\* endpoint.websocket.up
UpShape == {"v_obj", "v_str"}

\* an inbound frame: a string or a Buffer, holding JSON text or not
Frames ==
    {[string |-> FALSE, text |-> JSONStringify("v_obj")],
     [string |-> TRUE, text |-> "{a:"],
     [string |-> TRUE, text |-> JSONStringify("v_one")],
     [string |-> TRUE, text |-> JSONStringify("v_obj")]}

Iterator(yields, return) == [yields |-> yields, return |-> return]

\* what the user's callbacks may do; the callback of variant A returns
\* Awaitable<void> and yields nothing
Iterators(v) ==
    IF v = "A"
    THEN {Iterator(<<>>, Undefined)}
    ELSE {Iterator(ys, r) :
            ys \in {<<>>, <<"v_one">>, <<"v_obj", "v_one">>},
            r \in {Undefined, CloseWebSocket}}

MessageError(tag) == [ok |-> FALSE, tag |-> tag, value |-> Undefined]

\* a classification that takes any JSON value without validating it
messageToResultWithoutValidation(data, validator) ==
    IF ~data.string
    THEN MessageError("NonStringMessage")
    ELSE LET json == parseJSONString(data.text)
         IN  IF json = Throws
             THEN MessageError("NonJSONMessage")
             ELSE [ok |-> TRUE, tag |-> Undefined, value |-> json]

messageToResult(data, validator) ==
    IF ~data.string
    THEN MessageError("NonStringMessage")
    ELSE LET json == parseJSONString(data.text)
         IN  IF json = Throws
             THEN MessageError("NonJSONMessage")
             ELSE LET validation == validate(validator, json)
                  IN  IF ~validation.success
                      THEN MessageError("InvalidMessage")
                      ELSE [ok |-> TRUE, tag |-> Undefined, value |-> validation.value]

\* variant A (shared.js)
validateWebSocketMessage(data, validator) ==
    IF ~data.string
    THEN MessageError("NonStringMessage")
    ELSE LET json == parseJSONString(data.text)
         IN  IF json = Throws
             THEN MessageError("NonJSONMessage")
             ELSE LET validation == validate(validator, json)
                  IN  IF ~validation.success
                      THEN MessageError("InvalidMessage")
                      ELSE [ok |-> TRUE, tag |-> Undefined, value |-> validation.value]

\* the wrapped generator: variants B and D loop over iterator.next() and
\* return the value of the finished iterator; variant C loops with
\* for await ... of, which takes the yielded values only; variant A
\* returns state.callback(uuid, socket)
jsonOnOpenCallback(v, onOpen) ==
    CASE v = "A" -> onOpen
      [] v = "C" ->
            Iterator([i \in 1..Len(onOpen.yields) |-> JSONStringify(onOpen.yields[i])],
                     Undefined)
      [] OTHER ->
            Iterator([i \in 1..Len(onOpen.yields) |-> JSONStringify(onOpen.yields[i])],
                     onOpen.return)

\* onMessage is the iterator the user's callback answered for the result;
\* in variant A the listener of 'message' emits 'validated-message'
jsonOnMessageCallback(v, onMessage) ==
    CASE v = "A" -> Iterator(<<>>, Undefined)
      [] v = "C" ->
            Iterator([i \in 1..Len(onMessage.yields) |-> JSONStringify(onMessage.yields[i])],
                     Undefined)
      [] OTHER ->
            Iterator([i \in 1..Len(onMessage.yields) |-> JSONStringify(onMessage.yields[i])],
                     onMessage.return)

\* which callbacks of the response are functions, given which ones the
\* user's body has
webSocketResponse(v, body) ==
    [onOpen |-> IF v = "B" THEN body.onOpen ELSE TRUE,
     onMessage |-> IF v \in {"C", "D"} THEN body.onMessage ELSE TRUE]

\* the callbacks a user's accept record may have (onMessage is required
\* in variant B, onOpen in variants C and D, callback in variant A)
WebSocketBodies(v) ==
    CASE v = "A" -> {[onOpen |-> TRUE, onMessage |-> TRUE]}
      [] v = "B" -> {[onOpen |-> b, onMessage |-> TRUE] : b \in BOOLEAN}
      [] OTHER -> {[onOpen |-> TRUE, onMessage |-> b] : b \in BOOLEAN}

Socket(callbacks, phase) ==
    [callbacks |-> callbacks, phase |-> phase,
     frames |-> <<>>,       \* the inbound frames, in order
     handed |-> <<>>,       \* the results handed to the user's message handling
     yielded |-> <<>>,      \* per callback call, the values the user's iterator yielded
     written |-> <<>>,      \* per callback call, what the wrapped iterator yielded
     userReturned |-> <<>>, \* per callback call, the user's iterator's return value
     returned |-> <<>>]     \* per callback call, the wrapped iterator's return value

NoSocket == Socket([onOpen |-> FALSE, onMessage |-> FALSE], "none")

(***************************************************************************)
(* createSchemaHandler.  A path, a prefix and an endpoint name are         *)
(* sequences of characters; a name of several characters that is not taken *)
(* apart here stands as one element.                                       *)
(***************************************************************************)
MaxPath == 3

Chars == {"/", ".", "a", "b"}

\* the characters regexEscapePattern matches
regexEscapePattern == {".", "*", "+", "?", "^", "$", "{", "}", "(", ")", "|", "[", "]", "\\"}

\* schema.prefix.replace(regexEscapePattern, '\\$&'): each element of the
\* pattern source is a character, escaped or not
Escaped(prefix) ==
    [i \in 1..Len(prefix) |->
        [char |-> prefix[i], escaped |-> prefix[i] \in regexEscapePattern]]

\* one element of a pattern against one character: an unescaped dot matches
\* any character, everything else matches itself
MatchesChar(p, c) ==
    IF ~p.escaped /\ p.char = "." THEN TRUE ELSE p.char = c

\* prefixPattern.exec(path)?.[1] for the pattern ^<escaped>(.+): the rest of
\* the path after the prefix, which (.+) makes non-empty; the empty
\* sequence stands for undefined, when the pattern does not match
MatchedPath(pattern, path) ==
    IF /\ Len(path) > Len(pattern)
       /\ \A i \in 1..Len(pattern) : MatchesChar(pattern[i], path[i])
    THEN SubSeq(path, Len(pattern) + 1, Len(path))
    ELSE <<>>

\* properties every object literal inherits from Object.prototype: functions,
\* and __proto__, which is an object
InheritedFunctions == {<<"toString">>, <<"constructor">>}
InheritedObjects == {<<"__proto__">>}

\* schema.endpoints: the names the handlers object has a handler for
EndpointNames == {<<"a">>, <<"b", ".", "a">>}

Prefixes == {<<"/">>, <<"/", "a", ".">>, <<"/", "a", "/">>}

Paths ==
    UNION {[1..n -> Chars] : n \in 0..MaxPath}
        \cup {pre \o name : pre \in Prefixes,
                name \in EndpointNames \cup InheritedFunctions \cup InheritedObjects}

NoSchema ==
    [prefix |-> <<>>, path |-> <<>>, pc |-> "none", invoked |-> <<>>,
     called |-> <<>>, returned |-> Undefined]

\* the handler createSchemaHandler returns, called for a path: the endpoint
\* handlers it invoked, the other functions it called, and what it returned
\* (Throws for a TypeError); variant B has no ?? response()
SchemaHandlerCall(v, prefix, path) ==
    LET matched == MatchedPath(Escaped(prefix), path)
        nothing == IF v = "B" THEN Undefined ELSE "response()"
    IN  CASE matched \in EndpointNames ->
                [invoked |-> <<matched>>, called |-> <<>>, returned |-> "handled"]
          [] matched \in InheritedFunctions ->
                [invoked |-> <<>>, called |-> <<matched>>, returned |-> "value"]
          [] matched \in InheritedObjects ->
                [invoked |-> <<>>, called |-> <<>>, returned |-> Throws]
          [] OTHER ->
                [invoked |-> <<>>, called |-> <<>>, returned |-> nothing]

(***************************************************************************)
(* The client (src/unnamed/part_004).  The file holds two client modules:  *)
(*   "E"  lines 203-476  (ValidatedWebSocket, connectWebSocketEndpoint)    *)
(*   "F"  lines 478-769  (ValidatedWebsocket, connectWebsocketEndpoint)    *)
(* A client call is one fetchEndpoint or one connectWebSocketEndpoint with *)
(* an optional AbortSignal.                                                *)
(***************************************************************************)
ClientModules == {"E", "F"}

NoSignal == [given |-> FALSE, aborted |-> FALSE, onAbort |-> FALSE]

\* no WebSocket has been created
NoWebSocket ==
    [readyState |-> "none", onOpen |-> FALSE, onClose |-> FALSE, onMessage |-> FALSE,
     closeCalls |-> 0]

\* what fetchEndpoint returns: a tagged error, or the status and the data
FetchError(tag) == [ok |-> FALSE, tag |-> tag, status |-> 0, data |-> Undefined]

FetchOk(status, data) == [ok |-> TRUE, tag |-> Undefined, status |-> status, data |-> data]

NoBodyInit == [kind |-> "none", text |-> Undefined, parts |-> <<>>, field |-> Undefined]

\* the arguments of fetch(): url is the query appended to prefix + endpoint
NoFetchRequest ==
    [method |-> Undefined, url |-> Undefined, body |-> NoBodyInit,
     contentType |-> Undefined, csrf |-> Undefined, accept |-> Undefined,
     credentials |-> Undefined]

NoFetchResponse == [status |-> 0, contentType |-> Undefined, body |-> Undefined]

NoFetch ==
    [phase |-> "none",
     descriptor |-> Descriptor(Undefined, Undefined, FALSE, FALSE, <<>>, FALSE),
     input |-> Undefined,
     files |-> <<>>, issued |-> FALSE, request |-> NoFetchRequest,
     built |-> NoBodyInit, responded |-> FALSE, response |-> NoFetchResponse,
     returned |-> FetchError(Undefined)]

NoClient ==
    [module |-> "E", call |-> "none", signal |-> NoSignal, webSocket |-> NoWebSocket,
     returned |-> Undefined, resolves |-> <<>>, messageListeners |-> <<>>,
     userCalls |-> 0, lastCall |-> <<>>, inbound |-> 0, validations |-> 0,
     listened |-> <<>>, fetch |-> NoFetch]


NoMessage ==
    Request(Undefined, Undefined, Undefined, Undefined, Undefined, Undefined,
            Undefined, Undefined, Undefined, Undefined, Undefined, NoConfig)

(***************************************************************************)
(* A server: the descriptor compiled more than once, and several requests  *)
(* in flight at the same time.  Each request holds what its own chain of   *)
(* stages holds: the handler it was given to, the message, the Result, the *)
(* answers of sessionHandler, of the Body Reader and of bodyHandler.       *)
(***************************************************************************)
MaxRequests == 2

RequestIds == 1..MaxRequests

HandlerIds == {1, 2}

ConcurrentDescriptors ==
    {Descriptor("POST", "required", TRUE, FALSE, JSONResponses, FALSE)}

ConcurrentRequests ==
    {Request("POST", Undefined, Undefined, "", c, "*/*", "utf-8", Undefined,
             JSONContentType, "50", Undefined, NoConfig) : c \in {Undefined, "token"}}
    \cup {Request("GET", Undefined, Undefined, "", "token", "*/*", "utf-8", Undefined,
                  Undefined, Undefined, buildGETURL("v_obj"), NoConfig)}

NoRequest ==
    [h |-> 0, pc |-> "Idle", message |-> NoMessage, session |-> FALSE,
     read |-> NoRead, result |-> okResponse(PreState(NoMessage)), out |-> NoOut,
     wire |-> NoWire]

NoServer ==
    [compiled |-> [k \in HandlerIds |-> NoHandler],
     requests |-> [i \in RequestIds |-> NoRequest]]

Init ==
    /\ variant \in Variants
    /\ endpoint \in Descriptors
    /\ handler = NoHandler
    /\ message = NoMessage
    /\ pc = "Registered"
    /\ result = okResponse(PreState(NoMessage))
    /\ out = NoOut
    /\ wire = NoWire
    /\ calls = <<>>
    /\ reader = 0
    /\ parseResult = NoRead
    /\ socket = NoSocket
    /\ schema = NoSchema
    /\ server = NoServer
    /\ client = NoClient

CreateEndpointHandler ==
    /\ pc = "Registered"
    /\ handler' = createEndpointHandler(variant, endpoint)
    /\ pc' = IF handler'.status = "built" THEN "Idle" ELSE "Threw"
    /\ UNCHANGED <<variant, endpoint, message, result, out, wire, calls, reader, parseResult, socket, schema, server, client>>

\* a headers stage whose failure does not stop the result-returning stages
HeadersHandlerWithoutShortCircuit ==
    /\ pc = "Idle"
    /\ \E m \in Requests :
        /\ message' = m
        /\ result' = headersHandler(variant, handler, m)
    /\ calls' = Append(calls, "headersHandler")
    /\ pc' = "HeadersChecked"
    /\ UNCHANGED <<variant, endpoint, handler, out, wire, reader, parseResult, socket, schema, server, client>>

HeadersHandler ==
    /\ pc = "Idle"
    /\ \E m \in Requests :
        /\ message' = m
        /\ result' = headersHandler(variant, handler, m)
    /\ calls' = Append(calls, "headersHandler")
    /\ pc' = IF result'.ok THEN "HeadersChecked" ELSE "Failed"
    /\ UNCHANGED <<variant, endpoint, handler, out, wire, reader, parseResult, socket, schema, server, client>>

SessionHandler ==
    /\ pc = "HeadersChecked"
    /\ result' \in SessionOutcomes(result.state)
    /\ calls' = Append(calls, "sessionHandler")
    /\ pc' = IF result'.ok THEN "SessionEstablished" ELSE "Failed"
    /\ UNCHANGED <<variant, endpoint, handler, message, out, wire, reader, parseResult, socket, schema, server, client>>

BodyParsingAndValidationHandler ==
    /\ pc = "SessionEstablished"
    /\ handler.bodyParsing # Undefined
    /\ \E r \in Reads(variant, handler) :
        LET answer == bodyParsingAndValidationHandler(
                        variant, handler, result.state, message, r)
        IN  /\ result' = answer.result
            /\ pc' = IF answer.threw THEN "Threw"
                     ELSE IF answer.result.ok THEN "BodyParsed" ELSE "Failed"
            /\ parseResult' = IF UsesReader(handler) THEN r ELSE parseResult
    /\ calls' = Append(calls, "bodyParsingAndValidationHandler")
    /\ reader' = IF UsesReader(handler) THEN reader + 1 ELSE reader
    /\ UNCHANGED <<variant, endpoint, handler, message, out, wire, socket, schema, server, client>>

\* a chain that answers a failure with a tagged-error response itself and
\* runs bodyHandler for successful requests only
BodyHandlerSkippedOnFailure ==
    \/ /\ pc = "Failed"
       /\ wire' = response(500, result.error.tag, Undefined)
       /\ calls' = Append(calls, "finalHandler")
       /\ pc' = "Shaped"
       /\ UNCHANGED <<variant, endpoint, handler, message, result, out, reader, parseResult, socket, schema, server, client>>
    \/ /\ \/ pc = "BodyParsed"
          \/ pc = "SessionEstablished" /\ handler.bodyParsing = Undefined
       /\ out' \in BodyOutcomes(variant, endpoint)
       /\ calls' = Append(calls, "bodyHandler")
       /\ pc' = "BusinessLogicDone"
       /\ UNCHANGED <<variant, endpoint, handler, message, result, wire, reader, parseResult, socket, schema, server, client>>

BodyHandler ==
    /\ \/ pc \in {"BodyParsed", "Failed"}
       \/ pc = "SessionEstablished" /\ handler.bodyParsing = Undefined
    /\ out' \in BodyOutcomes(variant, endpoint)
    /\ calls' = Append(calls, "bodyHandler")
    /\ pc' = "BusinessLogicDone"
    /\ UNCHANGED <<variant, endpoint, handler, message, result, wire, reader, parseResult, socket, schema, server, client>>

\* a shaping stage that wraps the failure it finds in an error of its own
FinalHandlerWrappingFailure ==
    /\ pc = "BusinessLogicDone"
    /\ LET answer == finalHandler(variant, endpoint, out)
       IN  /\ wire' = IF answer.threw THEN NoWire ELSE answer.result
           /\ pc' = IF answer.threw THEN "Threw" ELSE "Shaped"
    /\ result' = IF result.ok THEN result
                 ELSE errorResponse("InternalError", result.error.tag)
    /\ out' = [out EXCEPT !.headers = finalHandlerHeaders(variant, endpoint, out)]
    /\ calls' = Append(calls, "finalHandler")
    /\ UNCHANGED <<variant, endpoint, handler, message, reader, parseResult, socket, schema, server, client>>

FinalHandler ==
    /\ pc = "BusinessLogicDone"
    /\ LET answer == finalHandler(variant, endpoint, out)
       IN  /\ wire' = IF answer.threw THEN NoWire ELSE answer.result
           /\ pc' = IF answer.threw THEN "Threw" ELSE "Shaped"
    /\ out' = [out EXCEPT !.headers = finalHandlerHeaders(variant, endpoint, out)]
    /\ calls' = Append(calls, "finalHandler")
    /\ UNCHANGED <<variant, endpoint, handler, message, result, reader, parseResult, socket, schema, server, client>>

Next ==
    \/ CreateEndpointHandler
    \/ HeadersHandler
    \/ SessionHandler
    \/ BodyParsingAndValidationHandler
    \/ BodyHandler
    \/ FinalHandler

Spec == Init /\ [][Next]_vars

(***************************************************************************)
(* The upgraded connection.  WebSocketInit is the state in which           *)
(* finalHandler has answered the upgrade for a WebSocket-only endpoint.    *)
(***************************************************************************)
WebSocketEndpoint == Descriptor("GET", "optional", FALSE, FALSE, NoResponses, TRUE)

WebSocketRequest ==
    Request("GET", "websocket", "key", "", Undefined, "*/*", "utf-8", Undefined,
            JSONContentType, "50", buildGETURL("v_obj"), NoConfig)

WebSocketInit ==
    /\ variant \in Variants
    /\ endpoint = WebSocketEndpoint
    /\ handler = createEndpointHandler(variant, endpoint)
    /\ message = WebSocketRequest
    /\ pc = "Shaped"
    /\ result = okResponse([headersHandler(variant, handler, message).state
                                EXCEPT !.session = "session"])
    /\ out = AcceptOut(variant)
    /\ wire = Upgrade(out)
    /\ calls = IF handler.bodyParsing = Undefined
               THEN <<"headersHandler", "sessionHandler", "bodyHandler", "finalHandler">>
               ELSE <<"headersHandler", "sessionHandler",
                      "bodyParsingAndValidationHandler", "bodyHandler", "finalHandler">>
    /\ reader = 0
    /\ parseResult = NoRead
    /\ \E body \in WebSocketBodies(variant) :
            socket = Socket(webSocketResponse(variant, body), "connecting")
    /\ schema = NoSchema
    /\ server = NoServer
    /\ client = NoClient

Called(user, wrapped) ==
    [socket EXCEPT !.yielded = Append(@, user.yields),
                   !.written = Append(@, wrapped.yields),
                   !.userReturned = Append(@, user.return),
                   !.returned = Append(@, wrapped.return),
                   !.phase = IF wrapped.return = CloseWebSocket THEN "closing" ELSE "open"]

OnOpen ==
    /\ socket.phase = "connecting"
    /\ IF socket.callbacks.onOpen
       THEN \E onOpen \in Iterators(variant) :
                socket' = Called(onOpen, jsonOnOpenCallback(variant, onOpen))
       ELSE socket' = [socket EXCEPT !.phase = "open"]
    /\ UNCHANGED <<variant, endpoint, handler, message, pc, result, out, wire, calls,
                   reader, parseResult, schema, server, client>>

OnMessage ==
    /\ socket.phase = "open"
    /\ Len(socket.frames) < MaxFrames
    /\ \E data \in Frames :
        IF socket.callbacks.onMessage
        THEN LET r == IF variant = "A"
                      THEN validateWebSocketMessage(data, UpShape)
                      ELSE messageToResult(data, UpShape)
             IN  \E onMessage \in Iterators(variant) :
                    socket' = [Called(onMessage, jsonOnMessageCallback(variant, onMessage))
                                 EXCEPT !.frames = Append(@, data),
                                        !.handed = Append(@, r)]
        ELSE socket' = [socket EXCEPT !.frames = Append(@, data)]
    /\ UNCHANGED <<variant, endpoint, handler, message, pc, result, out, wire, calls,
                   reader, parseResult, schema, server, client>>

WebSocketNext ==
    \/ OnOpen
    \/ OnMessage

WebSocketSpec == WebSocketInit /\ [][WebSocketNext]_vars

(***************************************************************************)
(* The schema handler of a schema with a prefix, called once for a path.   *)
(***************************************************************************)
SchemaInit ==
    /\ variant \in Variants
    /\ endpoint \in {WebSocketEndpoint}
    /\ handler = createEndpointHandler(variant, endpoint)
    /\ message = NoMessage
    /\ pc = "Idle"
    /\ result = okResponse(PreState(NoMessage))
    /\ out = NoOut
    /\ wire = NoWire
    /\ calls = <<>>
    /\ reader = 0
    /\ parseResult = NoRead
    /\ socket = NoSocket
    /\ \E prefix \in Prefixes, path \in Paths :
            schema = [NoSchema EXCEPT !.prefix = prefix, !.path = path, !.pc = "created"]
    /\ server = NoServer
    /\ client = NoClient

SchemaHandler ==
    /\ schema.pc = "created"
    /\ LET call == SchemaHandlerCall(variant, schema.prefix, schema.path)
       IN  schema' = [schema EXCEPT !.pc = "returned",
                                    !.invoked = call.invoked,
                                    !.called = call.called,
                                    !.returned = call.returned]
    /\ UNCHANGED <<variant, endpoint, handler, message, pc, result, out, wire, calls,
                   reader, parseResult, socket, server, client>>

SchemaSpec == SchemaInit /\ [][SchemaHandler]_vars

(***************************************************************************)
(* The server at work.  createEndpointHandler compiles the descriptor into *)
(* a handler; a request given to a compiled handler runs the composed      *)
(* chain one stage at a time, and the stages of different requests         *)
(* interleave wherever a stage awaits.                                     *)
(***************************************************************************)
ConcurrentInit ==
    /\ variant \in Variants
    /\ endpoint \in ConcurrentDescriptors
    /\ handler = NoHandler
    /\ message = NoMessage
    /\ pc = "Serving"
    /\ result = okResponse(PreState(NoMessage))
    /\ out = NoOut
    /\ wire = NoWire
    /\ calls = <<>>
    /\ reader = 0
    /\ parseResult = NoRead
    /\ socket = NoSocket
    /\ schema = NoSchema
    /\ server = NoServer
    /\ client = NoClient

ServerOnly ==
    UNCHANGED <<variant, endpoint, handler, message, pc, result, out, wire, calls,
                reader, parseResult, socket, schema, client>>

\* the answers of the Body Reader a request in flight may get
ConcurrentReads(v, h) ==
    IF UsesReader(h)
    THEN {r \in Reads(v, h) : r.value.json = "v_obj" \/ r.tag = "InvalidSyntax"}
    ELSE Reads(v, h)

\* what bodyHandler may answer a request in flight
ConcurrentOutcomes(v, e) == {o \in BodyOutcomes(v, e) : o.headers = NoHeaders}

\* a second compilation that leaves the auth check out
CompileWithoutAuthSecondTime(k) ==
    /\ server.compiled[k].status = "none"
    /\ server' = [server EXCEPT !.compiled[k] =
            IF k = 1
            THEN createEndpointHandler(variant, endpoint)
            ELSE [createEndpointHandler(variant, endpoint) EXCEPT !.checkAuth = Undefined]]
    /\ ServerOnly

Compile(k) ==
    /\ server.compiled[k].status = "none"
    /\ server' = [server EXCEPT !.compiled[k] = createEndpointHandler(variant, endpoint)]
    /\ ServerOnly

\* a headers stage that keeps the message in a variable all requests share:
\* it checks the message the handler was last given
RunHeadersHandlerOnSharedMessage(i) ==
    /\ server.requests[i].pc = "Idle"
    /\ \E k \in HandlerIds, m \in ConcurrentRequests :
        /\ server.compiled[k].status = "built"
        /\ LET others == {j \in RequestIds : server.requests[j].h = k}
               shared == IF others = {} THEN m
                         ELSE server.requests[CHOOSE j \in others : TRUE].message
               checked == headersHandler(variant, server.compiled[k], shared)
           IN  server' = [server EXCEPT !.requests[i] =
                    [@ EXCEPT !.h = k, !.message = m, !.result = checked,
                              !.pc = IF checked.ok THEN "HeadersChecked" ELSE "Failed"]]
    /\ ServerOnly

RunHeadersHandler(i) ==
    /\ server.requests[i].pc = "Idle"
    /\ \E k \in HandlerIds, m \in ConcurrentRequests :
        /\ server.compiled[k].status = "built"
        /\ LET checked == headersHandler(variant, server.compiled[k], m)
           IN  server' = [server EXCEPT !.requests[i] =
                    [@ EXCEPT !.h = k, !.message = m, !.result = checked,
                              !.pc = IF checked.ok THEN "HeadersChecked" ELSE "Failed"]]
    /\ ServerOnly

RunSessionHandler(i) ==
    /\ server.requests[i].pc = "HeadersChecked"
    /\ \E answer \in SessionOutcomes(server.requests[i].result.state) :
        server' = [server EXCEPT !.requests[i] =
            [@ EXCEPT !.session = answer.ok, !.result = answer,
                      !.pc = IF answer.ok THEN "SessionEstablished" ELSE "Failed"]]
    /\ ServerOnly

RunBodyParsingAndValidationHandler(i) ==
    LET req == server.requests[i]
        h == server.compiled[req.h]
    IN  /\ req.pc = "SessionEstablished"
        /\ h.bodyParsing # Undefined
        /\ \E r \in ConcurrentReads(variant, h) :
            LET answer == bodyParsingAndValidationHandler(
                            variant, h, req.result.state, req.message, r)
            IN  server' = [server EXCEPT !.requests[i] =
                    [@ EXCEPT !.read = r, !.result = answer.result,
                              !.pc = IF answer.threw THEN "Threw"
                                     ELSE IF answer.result.ok THEN "BodyParsed"
                                     ELSE "Failed"]]
        /\ ServerOnly

RunBodyHandler(i) ==
    LET req == server.requests[i]
    IN  /\ \/ req.pc \in {"BodyParsed", "Failed"}
           \/ req.pc = "SessionEstablished"
                /\ server.compiled[req.h].bodyParsing = Undefined
        /\ \E o \in ConcurrentOutcomes(variant, endpoint) :
            server' = [server EXCEPT !.requests[i] =
                [@ EXCEPT !.out = o, !.pc = "BusinessLogicDone"]]
        /\ ServerOnly

RunFinalHandler(i) ==
    LET req == server.requests[i]
        answer == finalHandler(variant, endpoint, req.out)
    IN  /\ req.pc = "BusinessLogicDone"
        /\ server' = [server EXCEPT !.requests[i] =
                [@ EXCEPT !.wire = IF answer.threw THEN NoWire ELSE answer.result,
                          !.out = [req.out EXCEPT !.headers =
                                    finalHandlerHeaders(variant, endpoint, req.out)],
                          !.pc = IF answer.threw THEN "Threw" ELSE "Shaped"]]
        /\ ServerOnly

ConcurrentNext ==
    \/ \E k \in HandlerIds : Compile(k)
    \/ \E i \in RequestIds : RunHeadersHandler(i)
    \/ \E i \in RequestIds : RunSessionHandler(i)
    \/ \E i \in RequestIds : RunBodyParsingAndValidationHandler(i)
    \/ \E i \in RequestIds : RunBodyHandler(i)
    \/ \E i \in RequestIds : RunFinalHandler(i)

ConcurrentSpec == ConcurrentInit /\ [][ConcurrentNext]_vars

\* the composed handler of a fresh compilation, run for one request alone
\* with the given answers of sessionHandler (s), the Body Reader (r) and
\* bodyHandler (o): where the chain ends, with what Result and what response
ComposedHandler(v, e, m, s, r, o) ==
    LET h == createEndpointHandler(v, e)
        checked == headersHandler(v, h, m)
        established ==
            IF ~checked.ok THEN checked
            ELSE IF s THEN okResponse([checked.state EXCEPT !.session = "session"])
            ELSE errorResponse("SessionError", Undefined)
        parsed ==
            IF established.ok /\ h.bodyParsing # Undefined
            THEN bodyParsingAndValidationHandler(v, h, established.state, m, r)
            ELSE Returns(established)
        shaped == finalHandler(v, e, o)
    IN  IF parsed.threw
        THEN [pc |-> "Threw", result |-> parsed.result, wire |-> NoWire]
        ELSE [pc |-> IF shaped.threw THEN "Threw" ELSE "Shaped",
              result |-> parsed.result,
              wire |-> IF shaped.threw THEN NoWire ELSE shaped.result]



(***************************************************************************)
(* The client at work.  The environment fires the signal's abort event and *)
(* the socket's open, close and message events; each event runs the        *)
(* listeners registered for it at that moment.                             *)
(***************************************************************************)
Signals ==
    {NoSignal,
     [given |-> TRUE, aborted |-> FALSE, onAbort |-> FALSE],
     [given |-> TRUE, aborted |-> TRUE, onAbort |-> FALSE]}

ClientInit ==
    /\ variant \in {"A"}
    /\ endpoint = WebSocketEndpoint
    /\ handler = NoHandler
    /\ message = NoMessage
    /\ pc = "Client"
    /\ result = okResponse(PreState(NoMessage))
    /\ out = NoOut
    /\ wire = NoWire
    /\ calls = <<>>
    /\ reader = 0
    /\ parseResult = NoRead
    /\ socket = NoSocket
    /\ schema = NoSchema
    /\ server = NoServer
    /\ \E md \in ClientModules, sg \in Signals :
            client = [NoClient EXCEPT !.module = md, !.signal = sg]

ClientOnly ==
    UNCHANGED <<variant, endpoint, handler, message, pc, result, out, wire, calls,
                reader, parseResult, socket, schema, server>>

abortedError == "Aborted"

networkOrAbortedError(signal) ==
    IF signal.given /\ signal.aborted THEN abortedError ELSE "NetworkError"

\* socket.close(): a socket that is connecting or open starts closing
Close(ws) ==
    [ws EXCEPT !.closeCalls = @ + 1,
               !.readyState = IF @ \in {"connecting", "open"} THEN "closing" ELSE @]

onAbort(c) == [c EXCEPT !.webSocket = Close(c.webSocket)]

onClose(c) ==
    [c EXCEPT !.signal.onAbort = FALSE,
              !.webSocket.onClose = FALSE,
              !.webSocket.onOpen = FALSE,
              !.resolves = Append(@, networkOrAbortedError(c.signal))]

\* an open listener that takes the abort listener off the signal as well
onOpenRemovingAbortListener(c) ==
    [c EXCEPT !.signal.onAbort = FALSE,
              !.webSocket.onClose = FALSE,
              !.webSocket.onOpen = FALSE,
              !.webSocket.onMessage = TRUE,
              !.resolves = Append(@, "ok")]

\* an open listener that leaves the close listener on the socket
onOpenKeepingCloseListener(c) ==
    [c EXCEPT !.webSocket.onOpen = FALSE,
              !.webSocket.onMessage = TRUE,
              !.resolves = Append(@, "ok")]

\* new ValidatedWebSocket(socket, ...) registers the message listener
onOpen(c) ==
    [c EXCEPT !.webSocket.onClose = FALSE,
              !.webSocket.onOpen = FALSE,
              !.webSocket.onMessage = TRUE,
              !.resolves = Append(@, "ok")]

\* a connect that creates the socket whatever the signal's state
ConnectWebSocketEndpointIgnoringSignal ==
    /\ client.call = "none"
    /\ client' = [client EXCEPT
            !.call = "connect",
            !.returned = "promise",
            !.signal.onAbort = client.signal.given,
            !.webSocket = [NoWebSocket EXCEPT !.readyState = "connecting",
                                              !.onOpen = TRUE, !.onClose = TRUE]]
    /\ ClientOnly

ConnectWebSocketEndpoint ==
    /\ client.call = "none"
    /\ client' =
        IF client.signal.given /\ client.signal.aborted
        THEN [client EXCEPT !.call = "connect", !.returned = abortedError]
        ELSE [client EXCEPT
                !.call = "connect",
                !.returned = "promise",
                !.signal.onAbort = client.signal.given,
                !.webSocket = [NoWebSocket EXCEPT !.readyState = "connecting",
                                                  !.onOpen = TRUE, !.onClose = TRUE]]
    /\ ClientOnly

\* the signal is aborted: its abort listeners run
AbortEvent ==
    /\ client.signal.given
    /\ ~client.signal.aborted
    /\ LET aborted == [client EXCEPT !.signal.aborted = TRUE]
       IN  client' = IF client.signal.onAbort THEN onAbort(aborted) ELSE aborted
    /\ ClientOnly

\* the connection is established
OpenEvent ==
    /\ client.webSocket.readyState = "connecting"
    /\ LET opened == [client EXCEPT !.webSocket.readyState = "open"]
       IN  client' = IF client.webSocket.onOpen THEN onOpen(opened) ELSE opened
    /\ ClientOnly

\* the connection fails or is closed, by either side
CloseEvent ==
    /\ client.webSocket.readyState \in {"connecting", "open", "closing"}
    /\ LET closed == [client EXCEPT !.webSocket.readyState = "closed"]
       IN  client' = IF client.webSocket.onClose THEN onClose(closed) ELSE closed
    /\ ClientOnly

(***************************************************************************)
(* ValidatedWebSocket.  A message listener is user code: "plain" only      *)
(* takes the result, "once" removes itself when it is called, "adder"      *)
(* registers a "plain" listener when it is called.                         *)
(***************************************************************************)
MaxListeners == 3

MaxMessages == 2

\* how many times the holder calls addMessageListener or removeMessageListener
MaxCalls == 3

Listeners == {"plain", "once", "adder"}

ClientFrames ==
    {[string |-> TRUE, text |-> "{a:"],
     [string |-> TRUE, text |-> JSONStringify("v_obj")]}

\* module F: ValidatedWebsocket.#processMessageData
processMessageData(data, validator) ==
    IF ~data.string
    THEN MessageError("InvalidTypeError")
    ELSE LET json == parseJSONString(data.text)
         IN  IF json = Throws
             THEN MessageError("InvalidJSONError")
             ELSE LET validation == validate(validator, json)
                  IN  IF ~validation.success
                      THEN MessageError("ValidationError")
                      ELSE [ok |-> TRUE, tag |-> Undefined, value |-> validation.value]

addMessageListener(listeners, l) == Append(listeners, l)

\* a removal that takes out the first registration only
removeFirstMessageListener(listeners, l) ==
    IF \E i \in 1..Len(listeners) : listeners[i] = l
    THEN LET first == CHOOSE i \in 1..Len(listeners) :
                        /\ listeners[i] = l
                        /\ \A j \in 1..(i - 1) : listeners[j] # l
         IN  SubSeq(listeners, 1, first - 1) \o SubSeq(listeners, first + 1, Len(listeners))
    ELSE listeners

removeMessageListener(listeners, l) ==
    LET Keep(x) == x # l IN SelectSeq(listeners, Keep)

\* for (const listener of this.#messageListeners) listener(result): the
\* loop walks the array it started on; push() grows that array while it is
\* still the field's value, filter() gives the field a new array.  The
\* answer is the field afterwards and the listeners called, in order.
RECURSIVE CallMessageListeners(_, _, _, _, _)
CallMessageListeners(iterated, field, shared, i, called) ==
    IF i > Len(iterated)
    THEN [messageListeners |-> field, called |-> called]
    ELSE LET l == iterated[i]
             after ==
                CASE l = "once" -> removeMessageListener(field, l)
                  [] l = "adder" /\ Len(field) < MaxListeners ->
                        addMessageListener(field, "plain")
                  [] OTHER -> field
             same == shared /\ l # "once"
         IN  CallMessageListeners(IF same THEN after ELSE iterated, after, same,
                                  i + 1, Append(called, l))

\* a message listener that hands every message on, validated or not
\* needed: it validates also when nobody listens
onMessageValidatingAlways(c, data) ==
    LET validation == IF c.module = "E"
                      THEN validateWebSocketMessage(data, UpShape)
                      ELSE processMessageData(data, UpShape)
        loop == CallMessageListeners(c.messageListeners, c.messageListeners,
                                     TRUE, 1, <<>>)
    IN  [c EXCEPT
            !.validations = @ + 1,
            !.messageListeners = loop.messageListeners,
            !.listened = @ \o [i \in 1..Len(loop.called) |->
                                [message |-> c.inbound, listener |-> loop.called[i],
                                 validation |-> validation]]]

\* the message listener the ValidatedWebSocket constructor registers
onMessage(c, data) ==
    IF Len(c.messageListeners) = 0
    THEN c
    ELSE LET validation == IF c.module = "E"
                           THEN validateWebSocketMessage(data, UpShape)
                           ELSE processMessageData(data, UpShape)
             loop == CallMessageListeners(c.messageListeners, c.messageListeners,
                                          TRUE, 1, <<>>)
         IN  [c EXCEPT
                !.validations = @ + 1,
                !.messageListeners = loop.messageListeners,
                !.listened = @ \o [i \in 1..Len(loop.called) |->
                                    [message |-> c.inbound, listener |-> loop.called[i],
                                     validation |-> validation]]]

\* a message arrives on the open socket
MessageEvent ==
    /\ client.webSocket.readyState = "open"
    /\ client.inbound < MaxMessages
    /\ \E data \in ClientFrames :
        LET arrived == [client EXCEPT !.inbound = @ + 1]
        IN  client' = IF client.webSocket.onMessage
                      THEN onMessage(arrived, data)
                      ELSE arrived
    /\ ClientOnly

\* the holder of the resolved ValidatedWebSocket registers a listener
AddMessageListener ==
    /\ client.resolves = <<"ok">>
    /\ client.userCalls < MaxCalls
    /\ Len(client.messageListeners) < MaxListeners
    /\ \E l \in Listeners :
        client' = [client EXCEPT !.messageListeners = addMessageListener(@, l),
                                 !.userCalls = @ + 1,
                                 !.lastCall = <<"addMessageListener", l>>]
    /\ ClientOnly

RemoveMessageListener ==
    /\ client.resolves = <<"ok">>
    /\ client.userCalls < MaxCalls
    /\ \E l \in Listeners :
        client' = [client EXCEPT !.messageListeners = removeMessageListener(@, l),
                                 !.userCalls = @ + 1,
                                 !.lastCall = <<"removeMessageListener", l>>]
    /\ ClientOnly


(***************************************************************************)
(* fetchEndpoint.  files is the list of the names of args.files (empty     *)
(* when args.files is undefined); a response is its status, its            *)
(* Content-Type header and what reading its body gives.                    *)
(***************************************************************************)
FetchResponses ==
    [s \in {200, 201, 202} |->
        CASE s = 200 -> "json" [] s = 201 -> "html" [] s = 202 -> "binary"]

FetchDescriptors ==
    {Descriptor(m, a, TRUE, TRUE, FetchResponses, FALSE) :
        m \in {Undefined, "GET", "POST"},
        a \in {"required", "optional", "none", Undefined}}

FilesOptions == {<<>>, <<"f1">>, <<"f1", "f2">>}

\* the body fetchEndpoint builds for the call
BuildBody(e, input, files) ==
    IF e.method \in {Undefined, "GET"}
    THEN NoBodyInit
    ELSE IF files # <<>>
    THEN [kind |-> "form", text |-> Undefined, parts |-> files,
          field |-> IF input # Undefined THEN JSONStringify(input) ELSE Undefined]
    ELSE IF input # Undefined
    THEN [kind |-> "json", text |-> JSONStringify(input), parts |-> <<>>,
          field |-> Undefined]
    ELSE NoBodyInit

\* the init object given to fetch(): module F leaves body out of it
FetchInit(md, e, input, files) ==
    [method |-> e.method,
     url |-> IF e.method \in {Undefined, "GET"} /\ input # Undefined
             THEN buildGETURL(input) ELSE Undefined,
     body |-> IF md = "E" THEN BuildBody(e, input, files) ELSE NoBodyInit,
     contentType |-> IF BuildBody(e, input, files).kind = "json"
                     THEN "application/json; charset=utf-8" ELSE Undefined,
     csrf |-> IF e.auth \in {"required", "optional"} THEN "" ELSE Undefined,
     accept |-> IF md = "F" THEN "application/json" ELSE Undefined,
     credentials |-> IF e.auth \in {"required", "optional"}
                     THEN "same-origin" ELSE "omit"]

FetchResponsesReceived ==
    {[status |-> st, contentType |-> ct, body |-> b] :
        st \in {200, 201, 202, 404},
        ct \in {Undefined, "garbage", "application/json; charset=utf-8",
                "application/json; charset=latin1", "application/json",
                "text/html; charset=utf-8", "image/png; charset=utf-8", "image/png"},
        b \in {Throws, "v_obj", "v_str"}}

\* response.text(), response.blob(): the body as it is, or an exception
ReadBody(r) == r.body

\* a classification that reads the body before it looks at the headers
HandleResponseReadingFirst(e, r) ==
    IF ReadBody(r) = Throws
    THEN FetchError("OutputDecodeError")
    ELSE IF r.status \notin DOMAIN e.responses
    THEN FetchError("UnexpectedStatus")
    ELSE LET parsed == parseContentTypeHeader(
                        IF r.contentType = Undefined THEN "null" ELSE r.contentType)
         IN  IF parsed.type = Undefined \/ parsed.characterSet # "utf-8"
             THEN FetchError("UnexpectedContentType")
             ELSE FetchOk(r.status, ReadBody(r))

\* fetchEndpoint from the response on
HandleResponse(e, r) ==
    IF r.status \notin DOMAIN e.responses
    THEN FetchError("UnexpectedStatus")
    ELSE IF r.contentType = Undefined
    THEN FetchError("UnexpectedContentType")
    ELSE LET parsed == parseContentTypeHeader(r.contentType)
             type == e.responses[r.status]
         IN  IF parsed.type = Undefined \/ parsed.characterSet # "utf-8"
             THEN FetchError("UnexpectedContentType")
             ELSE CASE type = "html" ->
                        IF parsed.type # "text/html"
                        THEN FetchError("UnexpectedContentType")
                        ELSE IF ReadBody(r) = Throws
                        THEN FetchError("OutputDecodeError")
                        ELSE FetchOk(r.status, ReadBody(r))
                    [] type = "json" ->
                        IF parsed.type # "application/json"
                        THEN FetchError("UnexpectedContentType")
                        ELSE IF ReadBody(r) = Throws
                        THEN FetchError("OutputDecodeError")
                        ELSE IF ~validate(InputShape, ReadBody(r)).success
                        THEN FetchError("OutputValidationError")
                        ELSE FetchOk(r.status, validate(InputShape, ReadBody(r)).value)
                    [] type = "binary" ->
                        IF parsed.type # "image/png"
                        THEN FetchError("UnexpectedContentType")
                        ELSE IF ReadBody(r) = Throws
                        THEN FetchError("OutputDecodeError")
                        ELSE FetchOk(r.status, ReadBody(r))

\* fetchEndpoint up to the await of fetch()
FetchEndpoint ==
    /\ client.call = "none"
    /\ \E e \in FetchDescriptors, input \in {Undefined, "v_obj"}, files \in FilesOptions :
        client' =
            IF client.signal.given /\ client.signal.aborted
            THEN [client EXCEPT
                    !.call = "fetch",
                    !.fetch = [NoFetch EXCEPT !.phase = "done", !.descriptor = e,
                                              !.input = input, !.files = files,
                                              !.returned = FetchError(abortedError)]]
            ELSE [client EXCEPT
                    !.call = "fetch",
                    !.fetch = [NoFetch EXCEPT !.phase = "inFlight", !.descriptor = e,
                                              !.input = input, !.files = files,
                                              !.issued = TRUE,
                                              !.built = BuildBody(e, input, files),
                                              !.request = FetchInit(client.module, e,
                                                                    input, files)]]
    /\ ClientOnly

\* fetch() rejects: the catch clause
FetchRejected ==
    /\ client.fetch.phase = "inFlight"
    /\ client' = [client EXCEPT
            !.fetch.phase = "done",
            !.fetch.returned = FetchError(networkOrAbortedError(client.signal))]
    /\ ClientOnly

\* fetch() resolves with a response
FetchResolved ==
    /\ client.fetch.phase = "inFlight"
    /\ ~client.signal.aborted
    /\ \E r \in FetchResponsesReceived :
        client' = [client EXCEPT
            !.fetch.phase = "done",
            !.fetch.responded = TRUE,
            !.fetch.response = r,
            !.fetch.returned = HandleResponse(client.fetch.descriptor, r)]
    /\ ClientOnly

ClientNext ==
    \/ FetchEndpoint
    \/ FetchRejected
    \/ FetchResolved
    \/ ConnectWebSocketEndpoint
    \/ AbortEvent
    \/ OpenEvent
    \/ CloseEvent
    \/ MessageEvent
    \/ AddMessageListener
    \/ RemoveMessageListener

ClientSpec == ClientInit /\ [][ClientNext]_vars

(***************************************************************************)
(* Properties.                                                             *)
(***************************************************************************)
LastCall == IF calls = <<>> THEN "none" ELSE calls[Len(calls)]

\* the headers stage has just answered the request
AfterHeaders == calls = <<"headersHandler">>

UpgradeTags == {"UpgradeError", "UpgradeRequired", "UpgradeDenied"}

AuthTags == {"CSRFHeaderRequired", "AuthRequired"}

\* the request has failed with a tagged error (not an exception)
Failed == ~result.ok /\ result.error.tag # Throws

\* C1: on an endpoint with auth 'required', a request with the declared
\* method that passes the upgrade check and lacks the CSRF header fails the
\* headers stage with CSRFHeaderRequired, with or without the auth cookie;
\* AuthRequired is the failure exactly when the CSRF header is present and
\* the auth cookie is absent.
C1_CSRFPrecedesAuth ==
    (/\ AfterHeaders
     /\ endpoint.auth = "required"
     /\ message.method = handler.method
     /\ result.error.tag \notin UpgradeTags)
    => /\ message.headers[CSRF_HEADER] = Undefined
            => ~result.ok /\ result.error.tag = "CSRFHeaderRequired"
       /\ result.error.tag = "AuthRequired"
            <=> /\ message.headers[CSRF_HEADER] # Undefined
                /\ message.cookies[AUTH_COOKIE_NAME] = Undefined

\* C1: a request with neither the CSRF header nor the auth cookie has
\* failed with CSRFHeaderRequired
C1_Witness ==
    /\ AfterHeaders
    /\ endpoint.auth = "required"
    /\ message.headers[CSRF_HEADER] = Undefined
    /\ message.cookies[AUTH_COOKIE_NAME] = Undefined
    /\ result.error.tag = "CSRFHeaderRequired"

\* C2: on a GET endpoint with an input shape the body-parsing stage
\* answers, in this order: no JSON query key -> URLQueryRequired; a query
\* that is not JSON text -> URLQueryMalformed; JSON outside the input shape
\* -> URLQueryInputInvalid; otherwise ok with input the validated value.  A
\* valid input that the client encoded into the URL arrives unchanged.
C2_URLQueryClassification ==
    (LastCall = "bodyParsingAndValidationHandler" /\ handler.bodyParsing = "query")
    => /\ pc # "Threw"
       /\ message.query = Undefined
            => ~result.ok /\ result.error.tag = "URLQueryRequired"
       /\ \A t \in MalformedTexts :
            message.query = encodeURIComponent(t)
                => ~result.ok /\ result.error.tag = "URLQueryMalformed"
       /\ \A v \in JSValues \ InputShape :
            message.query = buildGETURL(v)
                => /\ ~result.ok
                   /\ result.error.tag = "URLQueryInputInvalid"
                   /\ result.error.detail = v
       /\ \A v \in InputShape :
            message.query = buildGETURL(v)
                => result.ok /\ result.state.input = v

\* C2: the input {a: 1} has gone through the URL into the pipeline state
C2_Witness ==
    /\ LastCall = "bodyParsingAndValidationHandler"
    /\ handler.bodyParsing = "query"
    /\ message.query = buildGETURL("v_obj")
    /\ result.ok
    /\ result.state.input = "v_obj"

\* C3: on a WebSocket endpoint that declares no responses, a request with
\* the declared method and no upgrade headers fails the headers stage with
\* UpgradeRequired, and the session stage is not run.
C3_UpgradeRequired ==
    (/\ LastCall # "none"
     /\ endpoint.websocket
     /\ DOMAIN endpoint.responses = {}
     /\ message.method = handler.method
     /\ message.headers["Upgrade"] = Undefined)
    => /\ ~result.ok
       /\ result.error.tag = "UpgradeRequired"
       /\ \A i \in 1..Len(calls) : calls[i] # "sessionHandler"

C5_AcceptNegotiation ==
    (/\ AfterHeaders
     /\ hasHTMLResponse(endpoint) /\ hasJSONResponse(endpoint)
     /\ message.method = handler.method
     /\ message.headers["Upgrade"] = Undefined
     /\ result.error.tag \notin UpgradeTags \cup AuthTags)
    => /\ message.headers["Accept"] = "application/json"
            => result.error.tag # "InvalidAcceptHeader"
       /\ message.headers["Accept"] = "text/xml"
            => ~result.ok /\ result.error.tag = "InvalidAcceptHeader"


\* C6: for a status declared json the wire body JSON-decodes to the body
\* bodyHandler returned; Content-Type is 'application/json; charset=utf-8'
\* when bodyHandler set none (no headers object included) and is
\* bodyHandler's own otherwise.
C6_JSONShaping ==
    (/\ LastCall = "finalHandler"
     /\ ~out.accept
     /\ KindOf(endpoint, out.status) = "json")
    => /\ pc = "Shaped"
       /\ wire.kind = "response"
       /\ parseJSONString(wire.body) = out.body.value
       /\ wire.contentType =
            IF out.headers.contentType = Undefined
            THEN "application/json; charset=utf-8"
            ELSE out.headers.contentType

\* C7: on a file-upload endpoint configured with maximumFileSize 100 and
\* maximumFileCount 1, a multipart request of Content-Length 500 fails the
\* headers stage with MultipartMaximumTotalFileSizeExceeded and the Body
\* Reader is never invoked.
C7_TotalSizeRejectedAtHeaders ==
    (/\ LastCall # "none"
     /\ endpoint.files
     /\ message.method = handler.method
     /\ message.config = UploadConfig
     /\ message.headers["Content-Encoding"] = Undefined
     /\ message.headers["Content-Type"] = MultipartContentType
     /\ message.headers["Content-Length"] = "500")
    => /\ reader = 0
       /\ AfterHeaders =>
            ~result.ok /\ result.error.tag = "MultipartMaximumTotalFileSizeExceeded"

\* C8: a descriptor whose auth is 'none' or omitted compiles, and no
\* request to it fails with CSRFHeaderRequired or AuthRequired.
C8_NoAuthCheck ==
    endpoint.auth \in {"none", Undefined}
    => /\ pc # "Registered" => handler.status = "built"
       /\ result.error.tag \notin AuthTags

StageRank(c) ==
    CASE c = "headersHandler" -> 1
      [] c = "sessionHandler" -> 2
      [] c = "bodyParsingAndValidationHandler" -> 3
      [] c = "bodyHandler" -> 4
      [] c = "finalHandler" -> 5

\* C9: the stages of one request run in the order headers, session, body
\* parsing, body logic, shaping, each at most once; once the Result is a
\* failure, no later step runs the session or body-parsing stage, changes
\* the Result or invokes the Body Reader.
C9_Step ==
    /\ \A i, j \in 1..Len(calls') :
        i < j => StageRank(calls'[i]) < StageRank(calls'[j])
    /\ ~result.ok =>
        /\ result' = result
        /\ reader' = reader
        /\ calls'[Len(calls')] \notin {"sessionHandler", "bodyParsingAndValidationHandler"}

C9_StrictOrderShortCircuit == [][C9_Step]_vars

\* C9: a body endpoint's request failed in the session stage and went on to
\* bodyHandler with the Body Reader never invoked
C9_Witness ==
    /\ calls = <<"headersHandler", "sessionHandler", "bodyHandler">>
    /\ UsesReader(handler)
    /\ result.error.tag = "SessionError"
    /\ reader = 0

C10_Step ==
    /\ wire' # wire =>
        /\ wire = NoWire
        /\ pc = "BusinessLogicDone"
        /\ pc' = "Shaped"
        /\ calls' = Append(calls, "finalHandler")
    /\ pc = "Failed" =>
        /\ pc' = "BusinessLogicDone"
        /\ calls' = Append(calls, "bodyHandler")
        /\ result' = result
        /\ wire' = NoWire

AfterBodyParsing == LastCall = "bodyParsingAndValidationHandler"

\* C11: on a non-GET endpoint with input and no files, each fault of the
\* Body Reader's JSON parser (MaximumSizeExceeded, ReadError, DecodeError,
\* InvalidSyntax) makes the body-parsing stage return its tagged error
\* (JSONMaximumSizeExceeded, JSONStreamClosed, JSONStreamMalformed) and no
\* exception; a parsed value outside the input shape yields
\* JSONInputInvalid, and a value inside it becomes the state's input.
C11_JSONFaultsAreTaggedErrors ==
    (AfterBodyParsing /\ handler.bodyParsing = "json")
    => /\ (~parseResult.ok /\ parseResult.tag \in JSONFaults)
            => /\ pc # "Threw"
               /\ ~result.ok
               /\ result.error.tag =
                    CASE parseResult.tag = "MaximumSizeExceeded" -> "JSONMaximumSizeExceeded"
                      [] parseResult.tag = "ReadError" -> "JSONStreamClosed"
                      [] OTHER -> "JSONStreamMalformed"
       /\ (parseResult.ok /\ parseResult.value.json \notin InputShape)
            => ~result.ok /\ result.error.tag = "JSONInputInvalid"
       /\ (parseResult.ok /\ parseResult.value.json \in InputShape)
            => result.ok /\ result.state.input = parseResult.value.json

\* C12: on an endpoint with files, each fault of the Body Reader's
\* multipart parser is returned by the body-parsing stage as a failure
\* carrying the one tagged error of that fault, distinct faults giving
\* distinct tags, and none surfaces as an exception.
C12_MultipartFaultsAreTaggedErrors ==
    (/\ AfterBodyParsing
     /\ handler.bodyParsing \in {"files", "filesAndInput"}
     /\ ~parseResult.ok
     /\ parseResult.tag \in MultipartFaults)
    => /\ pc # "Threw"
       /\ ~result.ok
       /\ result.error.tag =
            CASE parseResult.tag = "RequestAborted" -> "MultipartStreamClosed"
              [] parseResult.tag = "BelowMinimumFileSize" -> "MultipartFileBelowMinimumSize"
              [] parseResult.tag = "MaximumFileCountExceeded" ->
                    "MultipartMaximumFileCountExceeded"
              [] parseResult.tag = "MaximumFileSizeExceeded" ->
                    "MultipartMaximumFileSizeExceeded"
              [] parseResult.tag = "MaximumTotalFileSizeExceeded" ->
                    "MultipartMaximumTotalFileSizeExceeded"
              [] parseResult.tag = "MaximumFieldsCountExceeded" ->
                    "MultipartMaximumFieldsCountExceeded"
              [] parseResult.tag = "MaximumFieldsSizeExceeded" ->
                    "MultipartMaximumFieldsSizeExceeded"
              [] parseResult.tag = "UnknownError" -> "MultipartUnknownParseError"


\* C13: on a non-GET endpoint with files and input, once the multipart
\* body parsed: invalid files fail with MultipartFilesInvalid before the
\* JSON field is looked at; with valid files, no JSON field fails with
\* MultipartJSONFieldRequired, a field that is not JSON text with
\* MultipartJSONFieldMalformed, JSON outside the input shape with
\* MultipartJSONFieldInputInvalid, and otherwise the stage succeeds with
\* input and files in the state.
C13_MultipartJSONField ==
    (/\ AfterBodyParsing
     /\ handler.bodyParsing = "filesAndInput"
     /\ parseResult.ok)
    => LET files == parseResult.value.files
           field == parseResult.value.field
           json == parseJSONString(field)
       IN  /\ pc # "Threw"
           /\ files \notin FilesShape
                => ~result.ok /\ result.error.tag = "MultipartFilesInvalid"
           /\ (files \in FilesShape /\ field = Undefined)
                => ~result.ok /\ result.error.tag = "MultipartJSONFieldRequired"
           /\ (files \in FilesShape /\ field # Undefined /\ json = Throws)
                => ~result.ok /\ result.error.tag = "MultipartJSONFieldMalformed"
           /\ (files \in FilesShape /\ field # Undefined /\ json # Throws
                    /\ json \notin InputShape)
                => ~result.ok /\ result.error.tag = "MultipartJSONFieldInputInvalid"
           /\ (files \in FilesShape /\ field # Undefined /\ json \in InputShape)
                => /\ result.ok
                   /\ result.state.input = json
                   /\ result.state.files = files


\* the shaping stage has just run
AfterFinal == LastCall = "finalHandler"

\* C14: when bodyHandler answers a response (not an upgrade) whose status
\* the descriptor does not declare, the shaping stage throws: no wire
\* response is produced and the Result is left as it was.
C14_Step ==
    (/\ pc = "BusinessLogicDone"
     /\ ~out.accept
     /\ out.status \notin DOMAIN endpoint.responses)
    => /\ pc' = "Threw"
       /\ wire' = NoWire
       /\ result' = result

C14_UndeclaredStatusIsFatal == [][C14_Step]_vars

\* C14: the shaping stage has thrown on the undeclared status 500
C14_Witness ==
    /\ AfterFinal
    /\ ~out.accept
    /\ out.status = 500
    /\ out.status \notin DOMAIN endpoint.responses
    /\ pc = "Threw"
    /\ wire = NoWire

\* C15: for a status declared binary the shaping stage always produces a
\* response whose body is body.data; its Content-Type is the body's
\* mimetype when bodyHandler set none, and bodyHandler's own otherwise.
C15_BinaryShaping ==
    (/\ AfterFinal
     /\ ~out.accept
     /\ KindOf(endpoint, out.status) = "binary")
    => /\ pc = "Shaped"
       /\ wire.kind = "response"
       /\ wire.body = out.body.data
       /\ wire.contentType =
            IF out.headers.contentType = Undefined
            THEN out.body.mimetype
            ELSE out.headers.contentType


C17_WrappedCallbacksRefineUser ==
    /\ Len(socket.written) = Len(socket.yielded)
    /\ Len(socket.returned) = Len(socket.userReturned)
    /\ \A c \in 1..Len(socket.yielded) :
        /\ Len(socket.written[c]) = Len(socket.yielded[c])
        /\ \A i \in 1..Len(socket.yielded[c]) :
                socket.written[c][i] = JSONStringify(socket.yielded[c][i])
        /\ socket.returned[c] = socket.userReturned[c]


C19_OptionalAuth ==
    (/\ AfterHeaders
     /\ endpoint.auth = "optional")
    => /\ result.error.tag # "AuthRequired"
       /\ (/\ message.method = handler.method
           /\ result.error.tag \notin UpgradeTags
           /\ message.headers[CSRF_HEADER] = Undefined)
            => ~result.ok /\ result.error.tag = "CSRFHeaderRequired"
       /\ (/\ message.headers[CSRF_HEADER] # Undefined
           /\ message.cookies[AUTH_COOKIE_NAME] = Undefined)
            => /\ result.error.tag \notin AuthTags
               /\ result.ok => /\ pc = "HeadersChecked"
                               /\ result.state.token = Undefined

\* C19: a request with the CSRF header and no auth cookie has passed the
\* headers stage of an optional-auth endpoint with token undefined
C19_Witness ==
    /\ AfterHeaders
    /\ endpoint.auth = "optional"
    /\ message.headers[CSRF_HEADER] # Undefined
    /\ message.cookies[AUTH_COOKIE_NAME] = Undefined
    /\ result.ok
    /\ pc = "HeadersChecked"
    /\ result.state.token = Undefined


\* the failures of the checks that precede the content check
EarlierTags ==
    {"WrongMethod", "InvalidAcceptHeader", "InvalidAcceptCharsetHeader"}
        \cup UpgradeTags \cup AuthTags

\* C20: on a non-GET endpoint with input and no files, a request that
\* reaches the content-type check (declared method, no Content-Encoding, no
\* earlier failure) fails it with InvalidContentTypeHeader unless its
\* Content-Type is application/json with character set utf-8 or utf8: a
\* missing header, another media type, a missing character set and another
\* character set all fail; the UTF-8 JSON header does not.
C20_UTF8JSONContentType ==
    (/\ AfterHeaders
     /\ handler.method # "GET"
     /\ endpoint.input
     /\ ~endpoint.files
     /\ message.method = handler.method
     /\ message.headers["Content-Encoding"] = Undefined
     /\ result.error.tag \notin EarlierTags)
    => IF message.headers["Content-Type"] \in
            {"application/json; charset=utf-8", "application/json; charset=utf8"}
       THEN result.error.tag # "InvalidContentTypeHeader"
       ELSE ~result.ok /\ result.error.tag = "InvalidContentTypeHeader"


\* C21: on an endpoint with files, a multipart request that reaches the
\* length check fails, when multipart limits are configured, with
\* InvalidContentLengthHeader for a missing or unparsable Content-Length,
\* else MultipartFileBelowMinimumSize for a length below minimumFileSize,
\* else MultipartMaximumTotalFileSizeExceeded for a length above
\* maximumFileSize * maximumFileCount + maximumFieldsSize (an absent limit
\* is unbounded), and otherwise passes; without configured limits the
\* Content-Length is neither required nor checked.
C21_MultipartLengthLimits ==
    (/\ AfterHeaders
     /\ endpoint.files
     /\ message.method = handler.method
     /\ message.headers["Content-Encoding"] = Undefined
     /\ message.headers["Content-Type"] = MultipartContentType
     /\ result.error.tag \notin EarlierTags)
    => LET limits == message.config.multipart
           header == message.headers["Content-Length"]
           valid == header \in {"50", "100", "500"}
           length == parseContentLengthHeader(header)
           bounded == /\ limits.maximumFileSize # Unset
                      /\ limits.maximumFileCount # Unset
                      /\ limits.maximumFieldsSize # Unset
           total == limits.maximumFileSize * limits.maximumFileCount
                        + limits.maximumFieldsSize
       IN  IF ~limits.defined
           THEN result.ok
           ELSE IF ~valid
           THEN ~result.ok /\ result.error.tag = "InvalidContentLengthHeader"
           ELSE IF limits.minimumFileSize # Unset /\ length < limits.minimumFileSize
           THEN ~result.ok /\ result.error.tag = "MultipartFileBelowMinimumSize"
           ELSE IF bounded /\ length > total
           THEN ~result.ok /\ result.error.tag = "MultipartMaximumTotalFileSizeExceeded"
           ELSE result.ok


\* C22: on a non-GET endpoint with input or files, a request that reaches
\* the content check with a Content-Encoding header fails with
\* UnsupportedContentEncodingHeader whatever its Content-Type and
\* Content-Length are; on a GET endpoint and on a non-GET endpoint with
\* neither input nor files that failure never occurs.
C22_ContentEncodingRejectedFirst ==
    AfterHeaders
    => IF handler.method # "GET" /\ (endpoint.input \/ endpoint.files)
       THEN (/\ message.method = handler.method
             /\ result.error.tag \notin EarlierTags
             /\ message.headers["Content-Encoding"] # Undefined)
                => ~result.ok /\ result.error.tag = "UnsupportedContentEncodingHeader"
       ELSE result.error.tag # "UnsupportedContentEncodingHeader"


AcceptTags == {"InvalidAcceptHeader", "InvalidAcceptCharsetHeader"}

\* C23: on an endpoint with at least one declared response, a request
\* recognized as a WebSocket upgrade is never failed with InvalidAcceptHeader
\* or InvalidAcceptCharsetHeader, whatever its Accept and Accept-Charset
\* headers are.
C23_UpgradeSkipsNegotiation ==
    (/\ AfterHeaders
     /\ DOMAIN endpoint.responses # {}
     /\ message.headers["Upgrade"] = "websocket")
    => result.error.tag \notin AcceptTags

\* C23: an upgrade request without an Accept header has passed the headers
\* stage of an endpoint whose handler has an Accept check
C23_Witness ==
    /\ AfterHeaders
    /\ DOMAIN endpoint.responses # {}
    /\ handler.checkAccept # Undefined
    /\ message.headers["Upgrade"] = "websocket"
    /\ message.headers["Accept"] = Undefined
    /\ result.ok


\* C24: on an endpoint whose responses are html and/or json, a request
\* without Upgrade header that reaches the Accept check fails with
\* InvalidAcceptHeader when its Accept header is absent or names no declared
\* kind; otherwise it fails with InvalidAcceptCharsetHeader exactly when its
\* Accept-Charset header is absent or names neither utf-8 nor utf8.
C24_CharsetNegotiation ==
    (/\ AfterHeaders
     /\ DOMAIN endpoint.responses # {}
     /\ \A s \in DOMAIN endpoint.responses : endpoint.responses[s] \in {"html", "json"}
     /\ message.method = handler.method
     /\ message.headers["Upgrade"] = Undefined
     /\ result.error.tag \notin UpgradeTags \cup AuthTags)
    => LET declared == {endpoint.responses[s] : s \in DOMAIN endpoint.responses}
           acceptable ==
                {"*/*"} \cup (IF "html" \in declared THEN {"text/html"} ELSE {})
                        \cup (IF "json" \in declared THEN {"application/json"} ELSE {})
       IN  IF message.headers["Accept"] \notin acceptable
           THEN ~result.ok /\ result.error.tag = "InvalidAcceptHeader"
           ELSE result.error.tag = "InvalidAcceptCharsetHeader"
                    <=> message.headers["Accept-Charset"] \notin {"utf-8", "utf8"}

\* C25: on an endpoint whose declared responses are all binary, a request
\* without Upgrade header is never failed with InvalidAcceptCharsetHeader,
\* whatever its Accept-Charset header is.
C25_BinaryExemptFromCharset ==
    (/\ AfterHeaders
     /\ DOMAIN endpoint.responses # {}
     /\ \A s \in DOMAIN endpoint.responses : endpoint.responses[s] = "binary"
     /\ message.headers["Upgrade"] = Undefined)
    => result.error.tag # "InvalidAcceptCharsetHeader"


\* the path begins with the prefix, character for character, and goes on
PathHasPrefix ==
    /\ Len(schema.path) > Len(schema.prefix)
    /\ SubSeq(schema.path, 1, Len(schema.prefix)) = schema.prefix

PathRemainder == SubSeq(schema.path, Len(schema.prefix) + 1, Len(schema.path))

\* C26: the schema handler, called for a path, invokes exactly the endpoint
\* handler whose name is the non-empty rest of the path after the literal
\* prefix, when there is one; for every other path it invokes no endpoint
\* handler, calls nothing else, does not throw and returns no response.
C26_SchemaDispatch ==
    schema.pc = "returned"
    => IF PathHasPrefix /\ PathRemainder \in EndpointNames
       THEN schema.invoked = <<PathRemainder>> /\ schema.returned = "handled"
       ELSE /\ schema.invoked = <<>>
            /\ schema.called = <<>>
            /\ schema.returned \in {Undefined, "response()"}

\* where the chain of request i ended is where the composed handler of a
\* fresh compilation ends when it runs for that request alone
SoloOutcome(i) ==
    LET req == server.requests[i]
        solo == ComposedHandler(variant, endpoint, req.message, req.session,
                                req.read, req.out)
    IN  /\ req.pc = solo.pc
        /\ req.wire = solo.wire
        /\ req.result.ok = solo.result.ok
        /\ req.result.error.tag = solo.result.error.tag
        /\ req.result.error = solo.result.error
        /\ req.result.ok => req.result.state = solo.result.state

Finished(i) == server.requests[i].pc \in {"Shaped", "Threw"}

\* no step writes a handler that has been compiled
CompiledStagesFrozen ==
    \A k \in HandlerIds :
        server.compiled[k].status # "none" => server'.compiled[k] = server.compiled[k]

SameRequest(i, j) ==
    /\ server.requests[i].message = server.requests[j].message
    /\ server.requests[i].session = server.requests[j].session
    /\ server.requests[i].read = server.requests[j].read
    /\ server.requests[i].out = server.requests[j].out

SameOutcome(i, j) ==
    LET a == server.requests[i]
        b == server.requests[j]
    IN  /\ a.pc = b.pc
        /\ a.wire = b.wire
        /\ a.result.ok = b.result.ok
        /\ a.result.error.tag = b.result.error.tag
        /\ a.result.error = b.result.error
        /\ a.result.ok => a.result.state = b.result.state

HeaderChecks ==
    <<IF message.method # handler.method THEN "WrongMethod" ELSE NoError,
      IF variant \in {"A", "D"}
      THEN CallCheckUpgrade_A(handler, message)
      ELSE CallCheckUpgrade_B(handler, message),
      CallCheckAuth(handler, message),
      CallCheckAccept(handler, message),
      CASE variant = "A" -> CallCheckContent_A(handler, message)
        [] variant = "B" -> CallCheckContent_B(handler, message)
        [] variant = "C" -> CallCheckContent_C(handler, message)
        [] variant = "D" -> CallCheckContent_D(handler, message)>>

\* C29: the headers stage fails a request exactly when the request
\* violates one of its checks, and the failure carries the one tag of the
\* earliest violated check in the order method, upgrade, auth, content
\* negotiation, content headers; a request with the wrong method gets
\* WrongMethod whatever its headers and cookies are.
C29_FixedCheckOrder ==
    AfterHeaders
    => /\ result.ok <=> \A g \in 1..5 : HeaderChecks[g] = NoError
       /\ \A g \in 1..5 :
            (HeaderChecks[g] # NoError /\ \A e \in 1..(g - 1) : HeaderChecks[e] = NoError)
            => ~result.ok /\ result.error.tag = HeaderChecks[g]
       /\ message.method # handler.method
            => ~result.ok /\ result.error.tag = "WrongMethod"

\* a request that violates the upgrade, auth and content checks at once
\* has been failed with the tag of the upgrade check
C29_Witness ==
    /\ AfterHeaders
    /\ HeaderChecks[1] = NoError
    /\ HeaderChecks[2] # NoError
    /\ HeaderChecks[3] # NoError
    /\ HeaderChecks[5] # NoError
    /\ result.error.tag \in UpgradeTags

ResultStages == {"headersHandler", "sessionHandler", "bodyParsingAndValidationHandler"}

\* the result-returning stage that ran last
LastResultStage ==
    calls[CHOOSE i \in 1..Len(calls) :
            /\ calls[i] \in ResultStages
            /\ \A j \in (i + 1)..Len(calls) : calls[j] \notin ResultStages]

\* the failure as the stage that ran last created it
CreatedFailure ==
    CASE LastResultStage = "headersHandler" ->
            headersHandler(variant, handler, message)
      [] LastResultStage = "sessionHandler" ->
            errorResponse("SessionError", Undefined)
      [] LastResultStage = "bodyParsingAndValidationHandler" ->
            bodyParsingAndValidationHandler(
                variant, handler, PreState(message), message, parseResult).result

C31_Step ==
    /\ (pc = "Idle" /\ result'.ok)
        => \A f \in {"pre", "session", "input", "files"} :
                result'.state[f] = PreState(message')[f]
    /\ (pc = "SessionEstablished" /\ calls' # calls /\ result'.ok)
        => /\ \A f \in DOMAIN result.state \ {"input", "files"} :
                result'.state[f] = result.state[f]
           /\ handler.bodyParsing = "noBodyParsingHandler" => result' = result
    /\ pc = "BusinessLogicDone"
        => /\ result' = result
           /\ out' = out

C31_StagesOnlyAddFields == [][C31_Step]_vars

\* C32: on a non-GET endpoint with input and no files, a UTF-8 JSON request
\* that reaches the length check fails with InvalidContentLengthHeader when
\* its Content-Length is missing or unparsable, whether or not
\* json.maximumSize is configured; otherwise it fails with
\* JSONMaximumSizeExceeded exactly when json.maximumSize is configured and
\* the length is greater than it, and passes in every other case.
C32_JSONLengthLimit ==
    (/\ AfterHeaders
     /\ handler.method # "GET"
     /\ endpoint.input
     /\ ~endpoint.files
     /\ message.method = handler.method
     /\ message.headers["Content-Encoding"] = Undefined
     /\ message.headers["Content-Type"] = JSONContentType
     /\ result.error.tag \notin EarlierTags)
    => LET header == message.headers["Content-Length"]
           maximumSize == message.config.json.maximumSize
       IN  IF header \notin {"50", "100", "500"}
           THEN ~result.ok /\ result.error.tag = "InvalidContentLengthHeader"
           ELSE IF maximumSize # Unset /\ parseContentLengthHeader(header) > maximumSize
           THEN ~result.ok /\ result.error.tag = "JSONMaximumSizeExceeded"
           ELSE result.ok

\* C33: the promise of connectWebSocketEndpoint is resolved once, by the
\* first of the socket's open and close events: with the validated socket
\* when it is the open event, and when it is the close event with Aborted
\* if the signal is aborted at that moment and with NetworkError if not;
\* no later event resolves it again.
C33_Step ==
    LET before == client.webSocket.readyState
        after == client'.webSocket.readyState
    IN  /\ Len(client'.resolves) <= 1
        /\ client.resolves # <<>> => client'.resolves = client.resolves
        /\ (before = "connecting" /\ after = "open") => client'.resolves = <<"ok">>
        /\ (client.resolves = <<>> /\ before # "none" /\ after = "closed")
            => client'.resolves =
                <<IF client.signal.given /\ client.signal.aborted
                  THEN "Aborted" ELSE "NetworkError">>
        /\ client'.resolves # client.resolves
            => before # after /\ after \in {"open", "closed"}

C33_ResolvedOnce == [][C33_Step]_vars

\* the socket was opened, then closed: the promise holds the socket still
C33_Witness ==
    /\ client.webSocket.readyState = "closed"
    /\ client.resolves = <<"ok">>

\* C34: once connectWebSocketEndpoint has resolved with the open socket the
\* abort listener stays on the signal, and aborting the signal then calls
\* close on the socket.
C34_Step ==
    /\ (client'.resolves = <<"ok">> /\ client'.signal.given) => client'.signal.onAbort
    /\ (client.resolves = <<"ok">> /\ ~client.signal.aborted /\ client'.signal.aborted)
        => client'.webSocket.closeCalls = client.webSocket.closeCalls + 1

C34_AbortAfterOpenCloses == [][C34_Step]_vars

\* the signal was aborted after the socket had opened, and close was called
C34_Witness ==
    /\ client.resolves = <<"ok">>
    /\ client.signal.aborted
    /\ client.webSocket.closeCalls = 1

\* the calls to message listeners made in this step
NewlyListened ==
    SubSeq(client'.listened, Len(client.listened) + 1, Len(client'.listened))

\* C35: when a message arrives, every listener registered at that moment
\* is called once per registration, in registration order, all with one
\* validation result, and the message is validated once; when no listener
\* is registered the message is not validated and nobody is called; no
\* other step calls a listener, so a message is never delivered later.
C35_Step ==
    /\ Len(client'.listened) >= Len(client.listened)
    /\ SubSeq(client'.listened, 1, Len(client.listened)) = client.listened
    /\ client'.inbound = client.inbound => /\ client'.listened = client.listened
                                           /\ client'.validations = client.validations
    /\ client'.inbound # client.inbound =>
        LET registered == client.messageListeners
        IN  IF registered = <<>>
            THEN /\ client'.listened = client.listened
                 /\ client'.validations = client.validations
            ELSE /\ client'.validations = client.validations + 1
                 /\ Len(NewlyListened) >= Len(registered)
                 /\ \A i \in 1..Len(registered) :
                        NewlyListened[i].listener = registered[i]
                 /\ \A i \in 1..Len(NewlyListened) :
                        /\ NewlyListened[i].message = client'.inbound
                        /\ NewlyListened[i].validation = NewlyListened[1].validation
                 /\ (\A i \in 1..Len(registered) : registered[i] # "adder")
                        => Len(NewlyListened) = Len(registered)

C36_Step ==
    (/\ client'.userCalls = client.userCalls + 1
     /\ client'.lastCall[1] = "removeMessageListener")
    => LET l == client'.lastCall[2]
           before == client.messageListeners
           after == client'.messageListeners
           Others(x) == x # l
       IN  /\ \A i \in 1..Len(after) : after[i] # l
           /\ after = SelectSeq(before, Others)
           /\ (\A i \in 1..Len(before) : before[i] # l) => after = before

C36_RemoveMessageListener == [][C36_Step]_vars

\* a listener that held two registrations (it was called twice for the one
\* message) was removed by one call, and the other registration stayed
C36_Witness ==
    /\ client.lastCall = <<"removeMessageListener", "plain">>
    /\ client.messageListeners = <<"adder">>
    /\ client.inbound = 1
    /\ Len(client.listened) = 3
    /\ client.listened[2].listener = "plain"
    /\ client.listened[3].listener = "plain"


\* C37: fetchEndpoint and connectWebSocketEndpoint called with a signal that
\* is aborted already return the Aborted error, and no request is issued and
\* no socket created; a fetch that fails returns Aborted when the signal was
\* aborted in the meantime and NetworkError otherwise.
C37_Step ==
    /\ (/\ client.call = "none"
        /\ client'.call = "fetch"
        /\ client.signal.given /\ client.signal.aborted)
        => /\ client'.fetch.phase = "done"
           /\ client'.fetch.returned = FetchError("Aborted")
           /\ ~client'.fetch.issued
           /\ client'.fetch.request = NoFetchRequest
    /\ (/\ client.call = "none"
        /\ client'.call = "connect"
        /\ client.signal.given /\ client.signal.aborted)
        => /\ client'.returned = "Aborted"
           /\ client'.webSocket = NoWebSocket
           /\ ~client'.signal.onAbort
    /\ (/\ client.fetch.phase = "inFlight"
        /\ client'.fetch.phase = "done"
        /\ ~client'.fetch.responded)
        => client'.fetch.returned =
            FetchError(IF client.signal.given /\ client.signal.aborted
                       THEN "Aborted" ELSE "NetworkError")

C37_AbortedBeforeOrDuring == [][C37_Step]_vars

\* a request was issued, the signal aborted in flight, and Aborted returned
C37_Witness ==
    /\ client.call = "fetch"
    /\ client.fetch.phase = "done"
    /\ client.fetch.issued
    /\ ~client.fetch.responded
    /\ client.signal.aborted
    /\ client.fetch.returned = FetchError("Aborted")


\* C38: the request fetchEndpoint issues carries the body it built: the JSON
\* text of the input with the JSON content type for a non-GET call with input
\* only, a form with one part per file and the JSON field when input is given
\* for a non-GET call with files, no body and the input in the URL query for
\* a GET call; with auth required or optional it carries the CSRF header and
\* same-origin credentials, otherwise credentials are omitted.
C38_RequestCarriesBody ==
    client.fetch.issued =>
        LET f == client.fetch
            get == f.descriptor.method \in {Undefined, "GET"}
            rq == f.request
        IN  /\ rq.body = f.built
            /\ (~get /\ f.files = <<>> /\ f.input # Undefined) =>
                    /\ rq.body.kind = "json"
                    /\ rq.body.text = JSONStringify(f.input)
                    /\ rq.contentType = "application/json; charset=utf-8"
            /\ (~get /\ f.files # <<>>) =>
                    /\ rq.body.kind = "form"
                    /\ rq.body.parts = f.files
                    /\ rq.body.field =
                        IF f.input # Undefined THEN JSONStringify(f.input) ELSE Undefined
            /\ get =>
                    /\ rq.body.kind = "none"
                    /\ rq.url = IF f.input # Undefined
                                THEN encodeURIComponent(JSONStringify(f.input))
                                ELSE Undefined
            /\ IF f.descriptor.auth \in {"required", "optional"}
               THEN rq.csrf = "" /\ rq.credentials = "same-origin"
               ELSE rq.credentials = "omit"


\* C39: fetchEndpoint classifies a received response in a fixed order and
\* returns the first case that applies: undeclared status, UnexpectedStatus;
\* Content-Type missing, unparsable or not utf-8, UnexpectedContentType for
\* every kind of response; media type other than the declared kind's,
\* UnexpectedContentType; body that cannot be read, OutputDecodeError; JSON
\* not of the declared shape, OutputValidationError; otherwise success with
\* the status and the data.
C39_ResponseClassification ==
    client.fetch.responded =>
        LET r == client.fetch.response
            declared == client.fetch.descriptor.responses
            returned == client.fetch.returned
            MediaTypeOf(kind) ==
                CASE kind = "html" -> "text/html; charset=utf-8"
                  [] kind = "json" -> "application/json; charset=utf-8"
                  [] kind = "binary" -> "image/png; charset=utf-8"
        IN  IF r.status \notin DOMAIN declared
            THEN returned = FetchError("UnexpectedStatus")
            ELSE IF r.contentType \notin {MediaTypeOf(k) : k \in {"html", "json", "binary"}}
            THEN returned = FetchError("UnexpectedContentType")
            ELSE IF r.contentType # MediaTypeOf(declared[r.status])
            THEN returned = FetchError("UnexpectedContentType")
            ELSE IF r.body = Throws
            THEN returned = FetchError("OutputDecodeError")
            ELSE IF declared[r.status] = "json" /\ r.body \notin InputShape
            THEN returned = FetchError("OutputValidationError")
            ELSE returned = FetchOk(r.status, r.body)

\* a binary response without a character set whose body cannot be read:
\* the Content-Type decides, before the body is read
C39_Witness ==
    /\ client.fetch.responded
    /\ client.fetch.response.status = 202
    /\ client.fetch.response.contentType = "image/png"
    /\ client.fetch.response.body = Throws
    /\ client.fetch.returned = FetchError("UnexpectedContentType")


====
